---- MODULE Spec2Model ----
(***************************************************************************)
(* A model of rtile (src/src/lib.rs): rectangular blocks of text (RTile),  *)
(* the thread-local registry of named tiles (TL_RAW_TILES) with its memo   *)
(* of resolved strings (TL_PROCESSED_TILES), placeholder scanning, cycle   *)
(* detection, bottom-up resolution, and the composition operators.         *)
(*                                                                         *)
(* Text.  A Rust String is a sequence of characters; a character is a TLA+ *)
(* string naming one Unicode scalar value.  "EM" names U+2003 (EM SPACE),  *)
(* a whitespace character that takes three bytes in UTF-8; every other     *)
(* character used here takes one byte.  "\n" is the line break.  A line is *)
(* a String without "\n"; Vec<String> is a sequence of lines.  A tile name *)
(* is a String; Option<String> is <<>> (None) or <<n>> (Some(n)).          *)
(***************************************************************************)
EXTENDS Naturals, Sequences, FiniteSets

VARIABLES
    TL_RAW_TILES,        \* name -> RTile            (lib.rs:819)
    TL_PROCESSED_TILES,  \* name -> String           (lib.rs:818)
    blk,                 \* the RTile value the client program holds
    other,               \* a second RTile value the program holds (an operand)
    last,                \* the operation just performed and how it ended
    parked               \* the same five of a second thread, not running now

vars == <<TL_RAW_TILES, TL_PROCESSED_TILES, blk, other, last, parked>>

----------------------------------------------------------------------------
(* Characters and strings                                                  *)

NL == "\n"

\* char::is_whitespace for the characters of the model
IsWhitespace(c) == c \in {" ", "EM"}

\* the UTF-8 length of a character (str::len counts bytes)
ByteLen(c) == IF c = "EM" THEN 3 ELSE 1

RECURSIVE StrLen(_)
\* str::len: the number of bytes
StrLen(s) == IF s = <<>> THEN 0 ELSE ByteLen(Head(s)) + StrLen(Tail(s))

\* s.chars().count()
CharsCount(s) == Len(s)

RECURSIVE trim_end(_)
\* str::trim_end
trim_end(s) ==
    IF s = <<>> THEN <<>>
    ELSE IF IsWhitespace(s[Len(s)]) THEN trim_end(SubSeq(s, 1, Len(s) - 1))
    ELSE s

RECURSIVE trim_start(_)
\* str::trim_start
trim_start(s) ==
    IF s = <<>> THEN <<>>
    ELSE IF IsWhitespace(Head(s)) THEN trim_start(Tail(s))
    ELSE s

\* s.chars().skip(k).collect()
SkipChars(s, k) == IF k >= Len(s) THEN <<>> ELSE SubSeq(s, k + 1, Len(s))

RECURSIVE Join(_)
\* Vec<String>::join("\n")
Join(lns) ==
    IF lns = <<>> THEN <<>>
    ELSE IF Len(lns) = 1 THEN lns[1]
    ELSE lns[1] \o <<NL>> \o Join(Tail(lns))

RECURSIVE SplitFrom(_, _, _)
SplitFrom(s, i, cur) ==
    IF i > Len(s) THEN <<cur>>
    ELSE IF s[i] = NL THEN <<cur>> \o SplitFrom(s, i + 1, <<>>)
    ELSE SplitFrom(s, i + 1, Append(cur, s[i]))

\* str::split('\n').collect(): always at least one piece
Split(s) == SplitFrom(s, 1, <<>>)

Max(a, b) == IF a >= b THEN a ELSE b
Min(a, b) == IF a <= b THEN a ELSE b

RECURSIVE MaxWidthBytes(_)
\* the width measured with str::len, in bytes
MaxWidthBytes(lns) ==
    IF lns = <<>> THEN 0 ELSE Max(StrLen(Head(lns)), MaxWidthBytes(Tail(lns)))

RECURSIVE MaxWidth(_)
\* lines.iter().map(|s| s.chars().count()).max().unwrap_or(0)
MaxWidth(lns) ==
    IF lns = <<>> THEN 0 ELSE Max(CharsCount(Head(lns)), MaxWidth(Tail(lns)))

RECURSIVE Spaces(_)
Spaces(k) == IF k = 0 THEN <<>> ELSE <<" ">> \o Spaces(k - 1)

\* format!("{:<w$}", s): s padded on the right with spaces to w characters
PadRight(s, w) == IF CharsCount(s) >= w THEN s ELSE s \o Spaces(w - CharsCount(s))

----------------------------------------------------------------------------
(* trim: the canonical form of a line sequence (lib.rs:913)                *)

\* a filter that drops one leading empty line only
SkipFirstEmpty(lns) ==
    IF lns # <<>> /\ Head(lns) = <<>> THEN Tail(lns) ELSE lns

RECURSIVE SkipWhileEmpty(_)
\* into_iter().skip_while(|ln| ln.is_empty())
SkipWhileEmpty(lns) ==
    IF lns = <<>> THEN <<>>
    ELSE IF Head(lns) = <<>> THEN SkipWhileEmpty(Tail(lns))
    ELSE lns

Reverse(s) == [i \in 1..Len(s) |-> s[Len(s) + 1 - i]]

RECURSIVE MinIndent(_)
\* min over the non-empty lines of ln.len() - ln.trim_start().len(), in bytes
MinIndent(lf) ==
    LET here == StrLen(Head(lf)) - StrLen(trim_start(Head(lf)))
    IN  IF Len(lf) = 1 THEN here ELSE Min(here, MinIndent(Tail(lf)))

trim(t1, do_trimming) ==
    IF ~do_trimming THEN t1
    ELSE
      LET stripped == [i \in 1..Len(t1) |-> trim_end(t1[i])]
          lns == Reverse(SkipWhileEmpty(Reverse(SkipWhileEmpty(stripped))))
          lf == SelectSeq(lns, LAMBDA ln : ln # <<>>)
          left == IF lf = <<>> THEN 0 ELSE MinIndent(lf)
      IN  [i \in 1..Len(lns) |-> SkipChars(lns[i], left)]

----------------------------------------------------------------------------
(* append: horizontal pad-and-concatenate (lib.rs:948)                     *)

\* concatenation row by row without the padding to the common width
append_unpadded(t1, t2) ==
    [i \in 1..Max(Len(t1), Len(t2)) |->
        (IF i <= Len(t1) THEN t1[i] ELSE <<>>) \o (IF i <= Len(t2) THEN t2[i] ELSE <<>>)]

append(t1, t2) ==
    LET ext == IF Len(t2) > Len(t1)
               THEN t1 \o [i \in 1..(Len(t2) - Len(t1)) |-> <<>>]
               ELSE t1
        w == MaxWidth(ext)
    IN  [i \in 1..Len(ext) |->
            IF i <= Len(t2) THEN PadRight(ext[i], w) \o t2[i] ELSE ext[i]]

----------------------------------------------------------------------------
(* The placeholder scanner: the loop every traversal runs over one line    *)
(* (lib.rs:1018-1037 and its copies).  Offsets count characters from 0;    *)
(* the code's byte offsets always fall on the same character boundaries.   *)

RECURSIVE FindOpen(_, _)
\* ln[from..].find("@{"), as an offset into ln; Len(ln) when there is none
FindOpen(ln, from) ==
    IF from + 2 > Len(ln) THEN Len(ln)
    ELSE IF ln[from + 1] = "@" /\ ln[from + 2] = "{" THEN from
    ELSE FindOpen(ln, from + 1)

RECURSIVE FindClose(_, _)
\* ln[from..].find('}').map_or(0, |i| i + 1) + from, the offset just past
\* the brace; 0 when there is none (the code then panics)
FindClose(ln, from) ==
    IF from + 1 > Len(ln) THEN 0
    ELSE IF ln[from + 1] = "}" THEN from + 1
    ELSE FindClose(ln, from + 1)

Lit(text) == [k |-> "lit", v |-> text]
RefEv(name) == [k |-> "ref", v |-> name]
BadEv == [k |-> "bad", v |-> <<>>]
EolEv == [k |-> "eol", v |-> <<>>]

RECURSIVE ScanFrom(_, _, _)
\* One run of the loop from (current_cursor, end): the literal run it hands
\* to append, then the placeholder name, or "bad" where the code panics
\* with "unifinished @{} expression".
ScanFrom(ln, current_cursor, end) ==
    LET start == FindOpen(ln, current_cursor)
    IN  IF current_cursor = Len(ln) /\ start = Len(ln) /\ end = Len(ln) /\ ln # <<>>
        THEN <<>>
        ELSE <<Lit(SubSeq(ln, end + 1, start))>> \o
             (IF start = Len(ln) THEN <<>>
              ELSE LET close == FindClose(ln, start)
                   IN  IF close = 0 THEN <<BadEv>>
                       ELSE <<RefEv(SubSeq(ln, start + 3, close - 1))>>
                            \o ScanFrom(ln, close, close))

Scan(ln) == ScanFrom(ln, 0, 0)

RECURSIVE TileEvents(_)
\* `for ln in lns { loop {..} <end of line> }` as one event sequence
TileEvents(lns) ==
    IF lns = <<>> THEN <<>>
    ELSE Scan(Head(lns)) \o <<EolEv>> \o TileEvents(Tail(lns))

\* the names a line sequence references directly
RefsOfLines(lns) ==
    LET evs == TileEvents(lns)
    IN  {evs[i].v : i \in {j \in 1..Len(evs) : evs[j].k = "ref"}}

----------------------------------------------------------------------------
(* Tiles and the registry                                                  *)

None == <<>>
Some(n) == <<n>>

RTile(name, lns, do_trimming) ==
    [name |-> name, lns |-> lns, do_trimming |-> do_trimming]

\* HashMap::insert
Insert(m, key, value) ==
    [n \in DOMAIN m \cup {key} |-> IF n = key THEN value ELSE m[n]]

\* a removal that drops every entry of the map
RemoveEvery(m, key) == [n \in {} |-> m[n]]

\* HashMap::remove
Remove(m, key) == [n \in DOMAIN m \ {key} |-> m[n]]

EmptyMap == [n \in {} |-> <<>>]

\* How an operation ends.  The panics of the code are "MalformedReference"
\* ("unifinished @{} expression") and "RecursionDetected" ("detected a
\* recursion"); "StackOverflow" is a recursion of the code that never returns.
OK == "ok"
Malformed == "MalformedReference"
Recursion == "RecursionDetected"
Overflow == "StackOverflow"

----------------------------------------------------------------------------
(* Cycle check (lib.rs:1067-1079, 1114-1175).  A traversal state is        *)
(* [pt: processed_tiles, it: inner_tiles, err].                            *)

\* a cycle test on every tile seen so far instead of the direct parents
is_recursion_among_seen(inner_tile_name, direct_parents, inner_tiles) ==
    \/ inner_tile_name \in direct_parents
    \/ \E i \in 1..Len(inner_tiles) : inner_tiles[i] = inner_tile_name

\* lib.rs:1151: the test that raises "detected a recursion"
is_recursion(inner_tile_name, direct_parents, inner_tiles) ==
    inner_tile_name \in direct_parents

RECURSIVE check_events(_, _, _, _, _, _)
\* The body of check_for_recursion_in_inner_tiles from event i on.  A tile
\* is entered only when it is not among direct_parents, so the recursion is
\* never deeper than the number of registered tiles.
check_events(tile_name, evs, i, st, direct_parents, raw) ==
    IF st.err # OK \/ i > Len(evs) THEN st
    ELSE LET e == evs[i]
             next(s) == check_events(tile_name, evs, i + 1, s, direct_parents, raw)
         IN  CASE e.k = "lit" -> next(st)
               [] e.k = "bad" -> [st EXCEPT !.err = Malformed]
               [] e.k = "eol" -> next([st EXCEPT !.pt = @ \cup {tile_name}])
               [] e.k = "ref" ->
                    IF e.v \in st.pt THEN next(st)
                    ELSE IF e.v \in DOMAIN raw
                    THEN IF is_recursion(e.v, direct_parents, st.it)
                         THEN [st EXCEPT !.err = Recursion]
                         ELSE next(check_events(
                                  e.v, TileEvents(raw[e.v].lns), 1,
                                  [st EXCEPT !.it = Append(@, e.v)],
                                  direct_parents \cup {e.v}, raw))
                    ELSE next(st)

check_for_recursion_in_inner_tiles(tile_name, tile_value, st, direct_parents, raw) ==
    check_events(tile_name, TileEvents(tile_value.lns), 1, st, direct_parents, raw)

\* returns how the check ends: OK, Recursion or Malformed
check_for_recursion_of_tiles(tile_name, tile_value, raw) ==
    check_for_recursion_in_inner_tiles(
        tile_name, tile_value, [pt |-> {}, it |-> <<>>, err |-> OK],
        {tile_name}, raw).err

----------------------------------------------------------------------------
(* Gathering the tiles to re-evaluate (lib.rs:1178-1231)                   *)

RECURSIVE find_events(_, _, _, _, _, _)
\* The body of find_inner_tiles from event i on.  `active` holds, for every
\* call of find_inner_tiles still running, <<its tile, processed_tiles at
\* its entry>>: the recursion is deterministic in these, so entering a tile
\* with the pair of a running call repeats that call for ever, and the
\* program dies of stack overflow.
find_events(tile_name, evs, i, st, active, raw) ==
    IF st.err # OK \/ i > Len(evs) THEN st
    ELSE LET e == evs[i]
             next(s) == find_events(tile_name, evs, i + 1, s, active, raw)
         IN  CASE e.k = "lit" -> next(st)
               [] e.k = "bad" -> [st EXCEPT !.err = Malformed]
               [] e.k = "eol" -> next([st EXCEPT !.pt = @ \cup {tile_name}])
               [] e.k = "ref" ->
                    IF e.v \in st.pt THEN next(st)
                    ELSE IF e.v \in DOMAIN raw
                    THEN IF <<e.v, st.pt>> \in active
                         THEN [st EXCEPT !.err = Overflow]
                         ELSE next(find_events(
                                  e.v, TileEvents(raw[e.v].lns), 1,
                                  [st EXCEPT !.it = Append(@, e.v)],
                                  active \cup {<<e.v, st.pt>>}, raw))
                    ELSE next(st)

find_inner_tiles(tile_name, tile_value, st, raw) ==
    find_events(tile_name, TileEvents(tile_value.lns), 1, st,
                {<<tile_name, st.pt>>}, raw)

----------------------------------------------------------------------------
(* Shallow substitution and re-evaluation (lib.rs:966-1008, 1440-1447)     *)

RECURSIVE format_processed_line(_, _, _, _)
\* one line of r_format_using_processed_tiles_data: [lns, err]
format_processed_line(evs, i, curr, processed) ==
    IF i > Len(evs) THEN [lns |-> curr, err |-> OK]
    ELSE LET e == evs[i]
         IN  CASE e.k = "lit" ->
                    format_processed_line(evs, i + 1, append(curr, <<e.v>>), processed)
               [] e.k = "bad" -> [lns |-> curr, err |-> Malformed]
               [] e.k = "ref" ->
                    IF e.v \in DOMAIN processed
                    THEN format_processed_line(
                             evs, i + 1, append(curr, Split(processed[e.v])), processed)
                    ELSE format_processed_line(evs, i + 1, curr, processed)

RECURSIVE format_processed_lines(_, _, _)
format_processed_lines(lns, res, processed) ==
    IF lns = <<>> THEN [lns |-> res, err |-> OK]
    ELSE LET one == format_processed_line(Scan(Head(lns)), 1, <<>>, processed)
         IN  IF one.err # OK THEN [lns |-> res, err |-> one.err]
             ELSE format_processed_lines(Tail(lns), res \o one.lns, processed)

r_format_using_processed_tiles_data(s, processed) ==
    format_processed_lines(Split(s), <<>>, processed)

\* a re-evaluation that canonicalizes whatever the mode of the tile
reevaluate_trimming(tile, processed) ==
    [out |-> Join(trim(r_format_using_processed_tiles_data(
                           Join(tile.lns), processed).lns, TRUE)),
     err |-> r_format_using_processed_tiles_data(Join(tile.lns), processed).err]

\* RTile::reevaluate: [out, err]
reevaluate(tile, processed) ==
    LET r == r_format_using_processed_tiles_data(Join(tile.lns), processed)
    IN  [out |-> IF r.err = OK THEN Join(trim(r.lns, tile.do_trimming)) ELSE <<>>,
         err |-> r.err]

----------------------------------------------------------------------------
(* Bottom-up evaluation of a tile (lib.rs:1082-1111)                       *)

\* lib.rs:1094: the order in which the gathered tiles are re-evaluated
evaluation_order(inner_tiles) == Reverse(inner_tiles)

RECURSIVE evaluate_all(_, _, _, _)
\* the loop of process_all_required_tiles_data: [processed, err]
evaluate_all(order, i, raw, processed) ==
    IF i > Len(order) THEN [processed |-> processed, err |-> OK]
    ELSE LET inner_tile_name == order[i]
             inner_tile_value ==
                 IF inner_tile_name \in DOMAIN raw THEN raw[inner_tile_name]
                 ELSE RTile(None, <<>>, TRUE)
             result == reevaluate(inner_tile_value, processed)
         IN  IF result.err # OK THEN [processed |-> processed, err |-> result.err]
             ELSE evaluate_all(order, i + 1, raw,
                               Insert(processed, inner_tile_name, result.out))

process_all_required_tiles_data(tile_name, tile_value, raw, processed) ==
    LET found == find_inner_tiles(
                     tile_name, tile_value,
                     [pt |-> {}, it |-> <<tile_name>>, err |-> OK], raw)
    IN  IF found.err # OK THEN [processed |-> processed, err |-> found.err]
        ELSE evaluate_all(evaluation_order(found.it), 1, raw, processed)

----------------------------------------------------------------------------
(* Full substitution and rendering (lib.rs:1011-1064, 1728-1762)           *)

RECURSIVE format_raw_line(_, _, _, _, _)
\* lib.rs:1040-1053, a placeholder whose tile is registered: the cycle
\* check (chk), the evaluation of its tiles (pr), then the splice
format_raw_ref(evs, i, curr, raw, processed, name, chk, pr) ==
    IF chk # OK
    THEN [lns |-> curr, processed |-> processed, err |-> chk]
    ELSE IF pr.err # OK
    THEN [lns |-> curr, processed |-> pr.processed, err |-> pr.err]
    ELSE format_raw_line(
             evs, i + 1,
             IF name \in DOMAIN pr.processed
             THEN append(curr, Split(pr.processed[name]))
             ELSE curr,
             raw, pr.processed)

\* a formatter for which a missing tile is an error that ends the render
NotFound == "ReferenceNotFound"
format_raw_missing_fatal(evs, i, curr, raw, processed) ==
    [lns |-> curr, processed |-> processed, err |-> NotFound]

\* a formatter that gives a missing tile the empty resolved string, as
\* the re-evaluation pass does for a name it does not find (lib.rs:1101)
format_raw_missing_caching(evs, i, curr, raw, processed) ==
    format_raw_line(evs, i + 1, curr, raw, Insert(processed, evs[i].v, <<>>))

\* lib.rs:1056-1058, a placeholder whose tile has no raw entry: a message
\* is printed and the line goes on with nothing spliced
format_raw_missing(evs, i, curr, raw, processed) ==
    format_raw_line(evs, i + 1, curr, raw, processed)

\* one line of r_format_using_raw_tiles_data from event i on:
\* [lns, processed, err]
format_raw_event(evs, i, curr, raw, processed, e) ==
    CASE e.k = "lit" ->
           format_raw_line(evs, i + 1, append(curr, <<e.v>>), raw, processed)
      [] e.k = "bad" ->
           [lns |-> curr, processed |-> processed, err |-> Malformed]
      [] e.k = "ref" ->
           IF e.v \in DOMAIN raw
           THEN format_raw_ref(
                    evs, i, curr, raw, processed, e.v,
                    check_for_recursion_of_tiles(e.v, raw[e.v], raw),
                    process_all_required_tiles_data(e.v, raw[e.v], raw, processed))
           ELSE format_raw_missing(evs, i, curr, raw, processed)

format_raw_line(evs, i, curr, raw, processed) ==
    IF i > Len(evs) THEN [lns |-> curr, processed |-> processed, err |-> OK]
    ELSE format_raw_event(evs, i, curr, raw, processed, evs[i])

RECURSIVE format_raw_lines(_, _, _, _)
format_raw_rest(lns, res, raw, one) ==
    IF one.err # OK
    THEN [lns |-> res, processed |-> one.processed, err |-> one.err]
    ELSE format_raw_lines(Tail(lns), res \o one.lns, raw, one.processed)

format_raw_lines(lns, res, raw, processed) ==
    IF lns = <<>> THEN [lns |-> res, processed |-> processed, err |-> OK]
    ELSE format_raw_rest(lns, res, raw,
                         format_raw_line(Scan(Head(lns)), 1, <<>>, raw, processed))

r_format_using_raw_tiles_data(s, raw, processed) ==
    format_raw_lines(Split(s), <<>>, raw, processed)

\* lib.rs:1733-1760: the string of a successful substitution r
fmt_result(self, r) ==
    [out |-> IF r.err # OK THEN <<>>
             ELSE IF self.do_trimming THEN Join(trim(r.lns, TRUE))
             ELSE Join(r.lns),
     processed |-> r.processed,
     err |-> r.err]

\* impl Display for RTile (to_string): [out, processed, err]; a panic
\* returns no string
fmt(self, raw, processed) ==
    fmt_result(self, r_format_using_raw_tiles_data(Join(self.lns), raw, processed))

----------------------------------------------------------------------------
(* Auto-materialization of missing tiles (lib.rs:1234-1289, 1646-1670).    *)
(* A traversal state is [pt: processed_tiles, missing, err].               *)

RECURSIVE identify_events(_, _, _, _, _, _)
\* The body of identify_any_missing_inner_tiles from event i on; tile_name
\* is an Option.  `active` is as in find_events.
identify_events(tile_name, evs, i, st, active, raw) ==
    IF st.err # OK \/ i > Len(evs) THEN st
    ELSE LET e == evs[i]
             next(s) == identify_events(tile_name, evs, i + 1, s, active, raw)
         IN  CASE e.k = "lit" -> next(st)
               [] e.k = "bad" -> [st EXCEPT !.err = Malformed]
               [] e.k = "eol" ->
                    next(IF tile_name # None
                         THEN [st EXCEPT !.pt = @ \cup {tile_name[1]}]
                         ELSE st)
               [] e.k = "ref" ->
                    IF e.v \in st.pt THEN next(st)
                    ELSE IF e.v \in DOMAIN raw
                    THEN IF <<e.v, st.pt>> \in active
                         THEN [st EXCEPT !.err = Overflow]
                         ELSE next(identify_events(
                                  Some(e.v), TileEvents(raw[e.v].lns), 1, st,
                                  active \cup {<<e.v, st.pt>>}, raw))
                    ELSE next([st EXCEPT !.missing = @ \cup {e.v}])

identify_any_missing_inner_tiles(tile_name, tile_lns, st, raw) ==
    identify_events(tile_name, TileEvents(tile_lns), 1, st, {}, raw)

\* the raw entries alone, without the resolved entry of lib.rs:1666
insert_blank_tiles_raw_only(missing, raw, processed) ==
    [raw |-> [n \in DOMAIN raw \cup missing |->
                 IF n \in missing THEN RTile(Some(n), <<>>, TRUE) ELSE raw[n]],
     processed |-> processed]

\* lib.rs:1655-1668: the entries inserted for the missing names
insert_blank_tiles(missing, raw, processed) ==
    [raw |-> [n \in DOMAIN raw \cup missing |->
                 IF n \in missing THEN RTile(Some(n), <<>>, TRUE) ELSE raw[n]],
     processed |-> [n \in DOMAIN processed \cup missing |->
                 IF n \in missing THEN <<>> ELSE processed[n]]]

\* a materialization that inserts each missing name as it meets it, so
\* that the names met before a panic stay registered
create_blank_tiles_as_met(name, lns, raw, processed) ==
    [raw |-> insert_blank_tiles(
                 identify_any_missing_inner_tiles(
                     name, lns, [pt |-> {}, missing |-> {}, err |-> OK], raw).missing,
                 raw, processed).raw,
     processed |-> insert_blank_tiles(
                 identify_any_missing_inner_tiles(
                     name, lns, [pt |-> {}, missing |-> {}, err |-> OK], raw).missing,
                 raw, processed).processed,
     err |-> identify_any_missing_inner_tiles(
                 name, lns, [pt |-> {}, missing |-> {}, err |-> OK], raw).err]

\* [raw, processed, err]; a panic inserts nothing
create_blank_tiles_of_any_missing_inner_tiles(name, lns, raw, processed) ==
    LET found == identify_any_missing_inner_tiles(
                     name, lns, [pt |-> {}, missing |-> {}, err |-> OK], raw)
        new == insert_blank_tiles(found.missing, raw, processed)
    IN  IF found.err # OK
        THEN [raw |-> raw, processed |-> processed, err |-> found.err]
        ELSE [raw |-> new.raw, processed |-> new.processed, err |-> OK]

----------------------------------------------------------------------------
(* Constructors (lib.rs:1361-1424) and composition (lib.rs:1672-1726).     *)
(* Each returns [tile, raw, processed, err].                               *)

\* RTile::new / new_str / construct_from_str (do_trimming = TRUE) and
\* new_without_trimming / ..._str / from_str_without_trimming (FALSE), on
\* the lines the caller supplies or val.split('\n') yields
construct(lns, do_trimming, raw, processed) ==
    LET made == create_blank_tiles_of_any_missing_inner_tiles(None, lns, raw, processed)
    IN  [tile |-> RTile(None, trim(lns, do_trimming), do_trimming),
         raw |-> made.raw, processed |-> made.processed, err |-> made.err]

\* impl Add for RTile
add(self, rhs, raw, processed) ==
    LET lns == append(self.lns, rhs.lns)
        made == create_blank_tiles_of_any_missing_inner_tiles(None, lns, raw, processed)
    IN  [tile |-> RTile(None, lns, self.do_trimming),
         raw |-> made.raw, processed |-> made.processed, err |-> made.err]

\* a composition that canonicalizes the lines it has put together
bitor_trimmed(self, rhs, raw, processed) ==
    [tile |-> RTile(None, trim(self.lns \o rhs.lns, TRUE), self.do_trimming),
     raw |-> create_blank_tiles_of_any_missing_inner_tiles(
                 None, self.lns \o rhs.lns, raw, processed).raw,
     processed |-> create_blank_tiles_of_any_missing_inner_tiles(
                 None, self.lns \o rhs.lns, raw, processed).processed,
     err |-> create_blank_tiles_of_any_missing_inner_tiles(
                 None, self.lns \o rhs.lns, raw, processed).err]

\* impl BitOr for RTile
bitor(self, rhs, raw, processed) ==
    LET lns == self.lns \o rhs.lns
        made == create_blank_tiles_of_any_missing_inner_tiles(None, lns, raw, processed)
    IN  [tile |-> RTile(None, lns, self.do_trimming),
         raw |-> made.raw, processed |-> made.processed, err |-> made.err]

\* a += written as *self = self.clone() + other: the result of + has no name
add_assign_as_add(self, rhs) ==
    RTile(None, append(self.lns, rhs.lns), self.do_trimming)

\* impl AddAssign for RTile: self after self += rhs
add_assign(self, rhs) == [self EXCEPT !.lns = append(@, rhs.lns)]

\* impl BitOrAssign for RTile: self after self |= rhs
bitor_assign(self, rhs) == [self EXCEPT !.lns = @ \o rhs.lns]

\* a tt! that keeps the template: the Block of the text itself
snapshot_as_template(lns, do_trimming, raw, processed) ==
    construct(lns, do_trimming, raw, processed)

\* MacroAttributeForT / ForK for RTile (lib.rs:150-160): construct_from_str
\* (from_str_without_trimming) of built.tile.to_string(), r being what
\* to_string did
snapshot_of_rendered(built, r, do_trimming) ==
    IF r.err # OK
    THEN [tile |-> built.tile, raw |-> built.raw, processed |-> r.processed,
          err |-> r.err]
    ELSE construct(Split(r.out), do_trimming, built.raw, r.processed)

\* t!(tile) and k!(tile), where `built` is what the expression that built
\* the tile did
snapshot_of_built(built, do_trimming) ==
    IF built.err # OK THEN built
    ELSE snapshot_of_rendered(built, fmt(built.tile, built.raw, built.processed),
                              do_trimming)

\* tt!(lns) = t!(t!(lns)) (lib.rs:416) and kk!(lns) = k!(k!(lns))
\* (lib.rs:727)
snapshot(lns, do_trimming, raw, processed) ==
    snapshot_of_built(construct(lns, do_trimming, raw, processed), do_trimming)

RECURSIVE blank_events(_, _, _, _, _, _)
\* The body of get_blank_inner_tiles_names (lib.rs:1292-1349) from event i
\* on; tile_name is an Option, the state is [pt: processed_tiles, blank:
\* blank_inner_tiles, err].  `active` is as in find_events.
blank_events(tile_name, evs, i, st, active, raw) ==
    IF st.err # OK \/ i > Len(evs) THEN st
    ELSE LET e == evs[i]
             next(s) == blank_events(tile_name, evs, i + 1, s, active, raw)
         IN  CASE e.k = "lit" -> next(st)
               [] e.k = "bad" -> [st EXCEPT !.err = Malformed]
               [] e.k = "eol" ->
                    next(IF tile_name # None
                         THEN [st EXCEPT !.pt = @ \cup {tile_name[1]}]
                         ELSE st)
               [] e.k = "ref" ->
                    IF e.v \in st.pt THEN next(st)
                    ELSE IF e.v \in DOMAIN raw
                    THEN IF <<e.v, st.pt>> \in active
                         THEN [st EXCEPT !.err = Overflow]
                         ELSE next(blank_events(
                                  Some(e.v), TileEvents(raw[e.v].lns), 1,
                                  IF raw[e.v].lns = <<>>
                                  THEN [st EXCEPT !.blank = Append(@, e.v)]
                                  ELSE st,
                                  active \cup {<<e.v, st.pt>>}, raw))
                    ELSE next(st)

\* RTile::get_names_of_blank_inner_tiles (lib.rs:1427): [pt, blank, err]
get_names_of_blank_inner_tiles(self, raw) ==
    blank_events(self.name, TileEvents(self.lns), 1,
                 [pt |-> {}, blank |-> <<>>, err |-> OK], {}, raw)

\* get_blank_tiles (lib.rs:900)
get_blank_tiles(raw) == {n \in DOMAIN raw : raw[n].lns = <<>>}

----------------------------------------------------------------------------
(* The operations of a client program.  `last` records the operation just  *)
(* performed: op, the tile name and the lines it was given, the string a   *)
(* render returned, and how it ended.  A panic leaves the thread-local     *)
(* maps as they were when it was raised and the program goes on (the panic *)
(* is caught); after a stack overflow the process is gone.                 *)

Did(op, name, lns, out, err) ==
    [op |-> op, name |-> name, lns |-> lns, out |-> out, err |-> err]

\* the program runs until a stack overflow ends the process
Alive == last.err # Overflow

\* Bound of the model: a self-referencing tile that escapes the cycle check
\* grows with every render; the program stops once a resolved string is
\* longer than MaxText characters.
MaxText == 5
Bounded == \A n \in DOMAIN TL_PROCESSED_TILES : Len(TL_PROCESSED_TILES[n]) <= MaxText
Running == Alive /\ Bounded

\* let blk = t!(lns) (do_trimming) or k!(lns) (otherwise); c is what the
\* constructor did
NewBlockDone(lns, c) ==
    /\ TL_RAW_TILES' = c.raw
    /\ TL_PROCESSED_TILES' = c.processed
    /\ blk' = IF c.err = OK THEN c.tile ELSE blk
    /\ last' = Did("new", None, lns, <<>>, c.err)
    /\ UNCHANGED <<other, parked>>

NewBlock(lns, do_trimming) ==
    /\ Running
    /\ NewBlockDone(lns, construct(lns, do_trimming, TL_RAW_TILES, TL_PROCESSED_TILES))

\* lib.rs:323-325: set_tiles(name, tile.to_string()), set_raw_tiles(name,
\* tile), where r is what to_string did
PersistRendered(name, lns, raw, tile, r) ==
    IF r.err # OK
    THEN /\ TL_RAW_TILES' = raw
         /\ TL_PROCESSED_TILES' = r.processed
         /\ last' = Did("tp", Some(name), lns, <<>>, r.err)
    ELSE /\ TL_PROCESSED_TILES' = Insert(r.processed, name, r.out)
         /\ TL_RAW_TILES' = Insert(raw, name, tile)
         /\ last' = Did("tp", None, <<>>, <<>>, OK)

\* lib.rs:320-322: the tile the constructor returned (c) is given its name
PersistNamed(name, lns, c, tile) ==
    IF c.err # OK
    THEN /\ UNCHANGED <<TL_RAW_TILES, TL_PROCESSED_TILES>>
         /\ last' = Did("tp", Some(name), lns, <<>>, c.err)
    ELSE PersistRendered(name, lns, c.raw, tile, fmt(tile, c.raw, c.processed))

PersistBuilt(name, lns, c) ==
    PersistNamed(name, lns, c, [c.tile EXCEPT !.name = Some(name)])

\* tp!(name, lns) (do_trimming) or kp!(name, lns) (otherwise), lib.rs:320-326:
\* construct, name, set_tiles(to_string()), set_raw_tiles.  The program
\* drops the tile the macro returns.
Persist(name, lns, do_trimming) ==
    /\ Running
    /\ PersistBuilt(name, lns,
                    construct(lns, do_trimming, TL_RAW_TILES, TL_PROCESSED_TILES))
    /\ UNCHANGED <<blk, other, parked>>

\* a render that registers a blank tile for every name it does not find
RenderDoneMaterializing(r) ==
    /\ TL_PROCESSED_TILES' = r.processed
    /\ last' = Did("render", None, <<>>, r.out, r.err)
    /\ TL_RAW_TILES' =
           insert_blank_tiles(RefsOfLines(blk.lns) \ DOMAIN TL_RAW_TILES,
                              TL_RAW_TILES, TL_PROCESSED_TILES).raw
    /\ UNCHANGED <<blk, other, parked>>

\* blk.to_string(); r is what it did
RenderDone(r) ==
    /\ TL_PROCESSED_TILES' = r.processed
    /\ last' = Did("render", None, <<>>, r.out, r.err)
    /\ UNCHANGED <<TL_RAW_TILES, blk, other, parked>>

Render ==
    /\ Running
    /\ RenderDone(fmt(blk, TL_RAW_TILES, TL_PROCESSED_TILES))

\* remove_tile(key), lib.rs:865
RemoveTile(key) ==
    /\ Running
    /\ TL_RAW_TILES' = Remove(TL_RAW_TILES, key)
    /\ TL_PROCESSED_TILES' = Remove(TL_PROCESSED_TILES, key)
    /\ last' = Did("remove", None, <<>>, <<>>, OK)
    /\ UNCHANGED <<blk, other, parked>>

\* clear_tiles(), lib.rs:884
ClearTiles ==
    /\ Running
    /\ TL_RAW_TILES' = EmptyMap
    /\ TL_PROCESSED_TILES' = EmptyMap
    /\ last' = Did("clear", None, <<>>, <<>>, OK)
    /\ UNCHANGED <<blk, other, parked>>

\* get_raw_tile (lib.rs:836), gtp!, gtq!: Some(tile) or None
get_raw_tile(key, raw) == IF key \in DOMAIN raw THEN Some(raw[key]) ELSE None

\* let found = gtp!(key)
GetTile(key) ==
    /\ Running
    /\ last' = Did("get", Some(key), <<>>, get_raw_tile(key, TL_RAW_TILES), OK)
    /\ UNCHANGED <<TL_RAW_TILES, TL_PROCESSED_TILES, blk, other, parked>>

\* if let Some(tile) = gtp!(key) { blk = tile }: the Block is the tile
\* registered under key, with its name
TakeTile(key) ==
    /\ Running
    /\ key \in DOMAIN TL_RAW_TILES
    /\ blk' = TL_RAW_TILES[key]
    /\ last' = Did("take", Some(key), <<>>, <<>>, OK)
    /\ UNCHANGED <<TL_RAW_TILES, TL_PROCESSED_TILES, other, parked>>

\* lib.rs:61-62: set_tiles(name, blk.to_string()), set_raw_tiles(name,
\* blk.clone()), where r is what to_string did
StoreRendered(name, r) ==
    IF r.err # OK
    THEN /\ TL_PROCESSED_TILES' = r.processed
         /\ last' = Did("stp", Some(name), <<>>, <<>>, r.err)
         /\ UNCHANGED TL_RAW_TILES
    ELSE /\ TL_PROCESSED_TILES' = Insert(r.processed, name, r.out)
         /\ TL_RAW_TILES' = Insert(TL_RAW_TILES, name, blk)
         /\ last' = Did("stp", Some(name), <<>>, <<>>, OK)

\* stp!(name, blk) (and stq!, lib.rs:78-83)
StoreTile(name) ==
    /\ Running
    /\ StoreRendered(name, fmt(blk, TL_RAW_TILES, TL_PROCESSED_TILES))
    /\ UNCHANGED <<blk, other, parked>>

\* let other = t!(lns) or k!(lns)
NewOtherDone(lns, c) ==
    /\ TL_RAW_TILES' = c.raw
    /\ TL_PROCESSED_TILES' = c.processed
    /\ other' = IF c.err = OK THEN c.tile ELSE other
    /\ last' = Did("other", None, lns, <<>>, c.err)
    /\ UNCHANGED <<blk, parked>>

NewOther(lns, do_trimming) ==
    /\ Running
    /\ NewOtherDone(lns, construct(lns, do_trimming, TL_RAW_TILES, TL_PROCESSED_TILES))

\* let other = t!(""), lib.rs:263-269: one empty line, no constructor runs
EmptyOther ==
    /\ Running
    /\ other' = RTile(None, <<<<>>>>, TRUE)
    /\ last' = Did("other", None, <<<<>>>>, <<>>, OK)
    /\ UNCHANGED <<TL_RAW_TILES, TL_PROCESSED_TILES, blk, parked>>

\* Bounds of the model: the program composes Blocks of at most MaxRows
\* lines and MaxCols characters a line; it puts a Block beside another
\* only when the widest lines of the two fit a line together.
MaxRows == 3
MaxCols == 3
Fits(lns) == Len(lns) <= MaxRows /\ \A i \in 1..Len(lns) : Len(lns[i]) <= MaxCols
FitsBeside(t1, t2) ==
    /\ Len(t1) <= MaxRows /\ Len(t2) <= MaxRows
    /\ \A i \in 1..Len(t1) : \A j \in 1..Len(t2) : Len(t1[i]) + Len(t2[j]) <= MaxCols

\* blk = blk.clone() + other.clone() or blk.clone() | other.clone(); c is
\* what the operator did
Composed(op, c) ==
    /\ TL_RAW_TILES' = c.raw
    /\ TL_PROCESSED_TILES' = c.processed
    /\ blk' = IF c.err = OK THEN c.tile ELSE blk
    /\ last' = Did(op, None, <<>>, <<>>, c.err)
    /\ UNCHANGED <<other, parked>>

Add ==
    /\ Running
    /\ FitsBeside(blk.lns, other.lns)
    /\ Composed("add", add(blk, other, TL_RAW_TILES, TL_PROCESSED_TILES))

BitOr ==
    /\ Running
    /\ Fits(blk.lns \o other.lns)
    /\ Composed("bitor", bitor(blk, other, TL_RAW_TILES, TL_PROCESSED_TILES))

\* blk += other.clone(), lib.rs:1690: the lines are put beside, nothing is
\* scanned
AddAssign ==
    /\ Running
    /\ FitsBeside(blk.lns, other.lns)
    /\ blk' = add_assign(blk, other)
    /\ last' = Did("add_assign", None, <<>>, <<>>, OK)
    /\ UNCHANGED <<TL_RAW_TILES, TL_PROCESSED_TILES, other, parked>>

\* blk |= other.clone(), lib.rs:1717: the lines are put below, nothing is
\* scanned
BitOrAssign ==
    /\ Running
    /\ Fits(blk.lns \o other.lns)
    /\ blk' = bitor_assign(blk, other)
    /\ last' = Did("bitor_assign", None, <<>>, <<>>, OK)
    /\ UNCHANGED <<TL_RAW_TILES, TL_PROCESSED_TILES, other, parked>>

\* RTile::inner_tiles (lib.rs:1616): [it, err], the names found, in the
\* order of discovery
inner_tiles(self, raw) ==
    find_inner_tiles(<<>>, self, [pt |-> {}, it |-> <<>>, err |-> OK], raw)

InnerTilesDone(r) ==
    /\ last' = Did("inner_tiles", None, <<>>, IF r.err = OK THEN r.it ELSE <<>>, r.err)
    /\ UNCHANGED <<TL_RAW_TILES, TL_PROCESSED_TILES, blk, other, parked>>

\* let names = blk.inner_tiles()
InnerTiles ==
    /\ Running
    /\ InnerTilesDone(inner_tiles(blk, TL_RAW_TILES))

\* blk = RTile::new(blk.lns.clone()), lib.rs:1372, on lines without
\* placeholders: the canonical form of the lines, trim(lns, true)
Canonicalize ==
    /\ Running
    /\ RefsOfLines(blk.lns) = {}
    /\ NewBlockDone(blk.lns,
                    construct(blk.lns, TRUE, TL_RAW_TILES, TL_PROCESSED_TILES))

\* blk = RTile::new_without_trimming(blk.lns.clone()), lib.rs:1403:
\* trim(lns, false)
KeepAsSupplied ==
    /\ Running
    /\ RefsOfLines(blk.lns) = {}
    /\ NewBlockDone(blk.lns,
                    construct(blk.lns, FALSE, TL_RAW_TILES, TL_PROCESSED_TILES))

\* let other = tt!(lns) or kk!(lns); c is what the macro did
SnapshotDone(lns, c) ==
    /\ TL_RAW_TILES' = c.raw
    /\ TL_PROCESSED_TILES' = c.processed
    /\ other' = IF c.err = OK THEN c.tile ELSE other
    /\ last' = Did("tt", None, lns, <<>>, c.err)
    /\ UNCHANGED <<blk, parked>>

Snapshot(lns, do_trimming) ==
    /\ Running
    /\ SnapshotDone(lns, snapshot(lns, do_trimming, TL_RAW_TILES, TL_PROCESSED_TILES))

\* let other = t!(blk.clone()) or k!(blk.clone())
SnapshotBlock(do_trimming) ==
    /\ Running
    /\ SnapshotDone(blk.lns,
                    snapshot_of_built([tile |-> blk, raw |-> TL_RAW_TILES,
                                       processed |-> TL_PROCESSED_TILES, err |-> OK],
                                      do_trimming))

\* lib.rs:438-441: the snapshot (c is what t!(t!(..)) did) is given its
\* name, rendered and registered
PersistSnapshotBuilt(name, lns, c) ==
    IF c.err # OK
    THEN /\ TL_RAW_TILES' = c.raw
         /\ TL_PROCESSED_TILES' = c.processed
         /\ last' = Did("ttp", Some(name), lns, <<>>, c.err)
    ELSE PersistRendered(name, lns, c.raw, [c.tile EXCEPT !.name = Some(name)],
                         fmt([c.tile EXCEPT !.name = Some(name)], c.raw, c.processed))

\* ttp!(name, lns) (lib.rs:436) or kkp!(name, lns) (lib.rs:747); the
\* program drops the tile the macro returns
PersistSnapshot(name, lns, do_trimming) ==
    /\ Running
    /\ PersistSnapshotBuilt(name, lns,
                            snapshot(lns, do_trimming, TL_RAW_TILES, TL_PROCESSED_TILES))
    /\ UNCHANGED <<blk, other, parked>>

\* other.to_string(); r is what it did
RenderOtherDone(r) ==
    /\ TL_PROCESSED_TILES' = r.processed
    /\ last' = Did("render_other", None, <<>>, r.out, r.err)
    /\ UNCHANGED <<TL_RAW_TILES, blk, other, parked>>

RenderOther ==
    /\ Running
    /\ RenderOtherDone(fmt(other, TL_RAW_TILES, TL_PROCESSED_TILES))

\* the assert! of lib.rs:905 fails
AssertionFailed == "assertion failed"

\* get_blank_tiles() as the program calls it (lib.rs:900-911): the loop
\* visits every entry, and panics at a zero-line entry whose name is empty
GetBlankTilesDone(blank) ==
    /\ last' = IF <<>> \in blank
               THEN Did("get_blank_tiles", None, <<>>, {}, AssertionFailed)
               ELSE Did("get_blank_tiles", None, <<>>, blank, OK)
    /\ UNCHANGED <<TL_RAW_TILES, TL_PROCESSED_TILES, blk, other, parked>>

\* let names = get_blank_tiles()
GetBlankTiles ==
    /\ Running
    /\ GetBlankTilesDone(get_blank_tiles(TL_RAW_TILES))

\* a raw() that canonicalizes whatever the mode of the Block
RTile_raw_trimmed(self) == Join(trim(self.lns, TRUE))

\* RTile::raw (lib.rs:1558): trim(self.lns.clone(), self.do_trimming)
\* .join("\n")
RTile_raw(self) == Join(trim(self.lns, self.do_trimming))

\* let text = blk.raw()
RawText ==
    /\ Running
    /\ last' = Did("raw", None, <<>>, RTile_raw(blk), OK)
    /\ UNCHANGED <<TL_RAW_TILES, TL_PROCESSED_TILES, blk, other, parked>>

\* RTile::dimensions (lib.rs:1633): (width, height)
dimensions(self) == <<MaxWidth(self.lns), Len(self.lns)>>

\* let (w, h) = blk.dimensions()
Dimensions ==
    /\ Running
    /\ last' = Did("dimensions", None, <<>>, dimensions(blk), OK)
    /\ UNCHANGED <<TL_RAW_TILES, TL_PROCESSED_TILES, blk, other, parked>>

BlankInnerTilesDone(r) ==
    /\ last' = Did("blank_inner_tiles", None, <<>>,
                   IF r.err = OK THEN r.blank ELSE <<>>, r.err)
    /\ UNCHANGED <<TL_RAW_TILES, TL_PROCESSED_TILES, blk, other, parked>>

\* let names = blk.get_names_of_blank_inner_tiles()
BlankInnerTiles ==
    /\ Running
    /\ BlankInnerTilesDone(get_names_of_blank_inner_tiles(blk, TL_RAW_TILES))

RECURSIVE ConcatTrimmed(_)
\* lns.iter().map(|item| item.trim()).collect::<Vec<&str>>().join("")
ConcatTrimmed(lns) ==
    IF lns = <<>> THEN <<>>
    ELSE trim_start(trim_end(Head(lns))) \o ConcatTrimmed(Tail(lns))

\* RTile::flatten (lib.rs:1625)
flatten(self) == ConcatTrimmed(self.lns)

\* let text = blk.flatten()
Flatten ==
    /\ Running
    /\ last' = Did("flatten", None, <<>>, flatten(blk), OK)
    /\ UNCHANGED <<TL_RAW_TILES, TL_PROCESSED_TILES, blk, other, parked>>

\* the names the scanner meets on one line, in order
NamesOnLine(evs) == SelectSeq(evs, LAMBDA e : e.k = "ref")

RECURSIVE NamesByLine(_)
NamesByLine(lns) ==
    IF lns = <<>> THEN <<>>
    ELSE <<[i \in 1..Len(NamesOnLine(Scan(Head(lns)))) |->
               NamesOnLine(Scan(Head(lns)))[i].v]>> \o NamesByLine(Tail(lns))

\* RTile::inner_tiles_in_raw_data (lib.rs:1580): [out, err], the names of
\* each line's placeholders; it panics at "@{" with no "}" after it
inner_tiles_in_raw_data(self) ==
    IF \E i \in 1..Len(TileEvents(self.lns)) : TileEvents(self.lns)[i].k = "bad"
    THEN [out |-> <<>>, err |-> Malformed]
    ELSE [out |-> NamesByLine(self.lns), err |-> OK]

\* let names = blk.inner_tiles_in_raw_data()
InnerTilesInRawData ==
    /\ Running
    /\ last' = Did("inner_tiles_in_raw_data", None, <<>>,
                   inner_tiles_in_raw_data(blk).out, inner_tiles_in_raw_data(blk).err)
    /\ UNCHANGED <<TL_RAW_TILES, TL_PROCESSED_TILES, blk, other, parked>>

\* lib.rs:817-820: what a thread holds when it starts: its own two maps,
\* empty, and the program's values, which start as t!()
NewThread ==
    [raw |-> EmptyMap, processed |-> EmptyMap,
     blk |-> RTile(None, <<>>, TRUE), other |-> RTile(None, <<>>, TRUE),
     last |-> Did("init", None, <<>>, <<>>, OK)]

\* Two threads have started; one of them is running
Init ==
    /\ TL_RAW_TILES = NewThread.raw
    /\ TL_PROCESSED_TILES = NewThread.processed
    /\ blk = NewThread.blk
    /\ other = NewThread.other
    /\ last = NewThread.last
    /\ parked = NewThread

\* what the running thread holds
Running_Thread ==
    [raw |-> TL_RAW_TILES, processed |-> TL_PROCESSED_TILES,
     blk |-> blk, other |-> other, last |-> last]

\* a scheduler that left one registry to both threads, as a plain static
\* would: the maps stay where they are
SwitchSharing ==
    /\ Running
    /\ blk' = parked.blk
    /\ other' = parked.other
    /\ last' = parked.last
    /\ parked' = [Running_Thread EXCEPT !.raw = parked.raw,
                                        !.processed = parked.processed]
    /\ UNCHANGED <<TL_RAW_TILES, TL_PROCESSED_TILES>>

\* The scheduler runs the other thread: with thread_local! (lib.rs:817)
\* each thread finds the maps it left
Switch ==
    /\ Running
    /\ TL_RAW_TILES' = parked.raw
    /\ TL_PROCESSED_TILES' = parked.processed
    /\ blk' = parked.blk
    /\ other' = parked.other
    /\ last' = parked.last
    /\ parked' = Running_Thread

----------------------------------------------------------------------------
(* Spec: programs that build an acyclic reference graph, the diamond       *)
(* A -> {B, C} -> D -> E, re-register its leaf, remove tiles and render.   *)
(* Every tile is trimming.                                                 *)

nA == <<"A">>
nB == <<"B">>
nC == <<"C">>
nD == <<"D">>
nE == <<"E">>
Names == {nA, nB, nC, nD, nE}

Ref(n) == <<"@", "{">> \o n \o <<"}">>

\* <<name, lines>>
TileDefs ==
    { <<nA, <<Ref(nB) \o Ref(nC)>>>>,
      <<nB, <<Ref(nD)>>>>,
      <<nC, <<Ref(nD)>>>>,
      <<nD, <<Ref(nE)>>>>,
      <<nE, <<<<"x">>>>>>,
      <<nE, <<<<"y">>>>>> }

BlockDefs ==
    { <<Ref(nA)>>,
      <<Ref(nD) \o <<"-">> \o Ref(nE)>> }

\* the tiles the program removes
Removable == {nD, nE}

Next ==
    \/ \E d \in TileDefs : Persist(d[1], d[2], TRUE)
    \/ \E l \in BlockDefs : NewBlock(l, TRUE)
    \/ Render
    \/ \E n \in Removable : RemoveTile(n)
    \/ ClearTiles

Spec == Init /\ [][Next]_vars

----------------------------------------------------------------------------
(* SpecCycle: programs over the diamond A -> {B, C} -> D whose tile D is a *)
(* leaf or refers back: to A, to itself, or to itself from its second line.*)
(* The blocks rendered reference the diamond, use one name twice on a line *)
(* and on two lines, or hold the lines of a tile D itself.                 *)

CycleTileDefs ==
    { <<nA, <<Ref(nB) \o Ref(nC)>>>>,
      <<nB, <<Ref(nD)>>>>,
      <<nC, <<Ref(nD)>>>>,
      <<nD, <<<<"x">>>>>>,
      <<nD, <<Ref(nA)>>>>,
      <<nD, <<Ref(nD)>>>>,
      <<nD, <<<<"x">>, Ref(nD)>>>> }

CycleBlockDefs ==
    { <<Ref(nA)>>,
      <<Ref(nD) \o Ref(nD)>>,
      <<Ref(nB), Ref(nB)>>,
      <<<<"x">>, Ref(nD)>> }

NextCycle ==
    \/ \E d \in CycleTileDefs : Persist(d[1], d[2], TRUE)
    \/ \E l \in CycleBlockDefs : NewBlock(l, TRUE)
    \/ Render

SpecCycle == Init /\ [][NextCycle]_vars

----------------------------------------------------------------------------
(* SpecLayout: programs that register a two-row tile M, a tile N with      *)
(* surrounding whitespace in either mode and a tile P that references N,   *)
(* build Blocks in either mode over them, before or after the tiles are    *)
(* registered, compose Blocks with + and |, and render.                    *)

nM == <<"M">>
nN == <<"N">>
nP == <<"P">>

\* <<name, lines, do_trimming>>
LayoutTileDefs ==
    { <<nM, <<<<"a">>, <<"b", "b">>>>, TRUE>>,
      <<nN, <<<<" ", "c", " ">>>>, FALSE>>,
      <<nN, <<<<" ", "c", " ">>>>, TRUE>>,
      <<nP, <<Ref(nN)>>, TRUE>> }

\* <<lines, do_trimming>>
LayoutBlockDefs ==
    { <<<<Ref(nM) \o <<"x">> \o Ref(nN)>>, FALSE>>,
      <<<<Ref(nN)>>, FALSE>>,
      <<<<Ref(nN)>>, TRUE>>,
      <<<<Ref(nP)>>, FALSE>>,
      <<<<<<"b">>, <<"EM", "a">>>>, FALSE>>,
      <<<<<<"h">>>>, TRUE>> }

LayoutOtherDefs ==
    { <<>>, <<<<"X">>>> }

NextLayout ==
    \/ \E d \in LayoutTileDefs : Persist(d[1], d[2], d[3])
    \/ \E d \in LayoutBlockDefs : NewBlock(d[1], d[2])
    \/ \E l \in LayoutOtherDefs : NewOther(l, TRUE)
    \/ EmptyOther
    \/ Add
    \/ BitOr
    \/ Render

SpecLayout == Init /\ [][NextLayout]_vars

----------------------------------------------------------------------------
(* SpecRegistry: programs that register, overwrite, look up, remove and    *)
(* clear the tiles A and B, by tp! and by stp! of a Block they built.      *)

\* <<name, lines, do_trimming>>
RegistryTileDefs ==
    { <<nA, <<<<"x">>>>, TRUE>>,
      <<nA, <<<<" ", "y">>>>, FALSE>>,
      <<nB, <<Ref(nA)>>, TRUE>> }

RegistryBlockDefs ==
    { <<Ref(nA)>>, <<<<"z">>>> }

RegistryNames == {nA, nB}

NextRegistry ==
    \/ \E d \in RegistryTileDefs : Persist(d[1], d[2], d[3])
    \/ \E l \in RegistryBlockDefs : NewBlock(l, TRUE)
    \/ StoreTile(nB)
    \/ \E n \in RegistryNames : GetTile(n)
    \/ \E n \in RegistryNames : RemoveTile(n)
    \/ ClearTiles
    \/ Render

SpecRegistry == Init /\ [][NextRegistry]_vars

----------------------------------------------------------------------------
(* SpecThreads: two threads that register, look up, remove and render a    *)
(* tile of the same name A, interleaved in every way.                      *)

ThreadTileDefs ==
    { <<nA, <<<<"x">>>>>>, <<nA, <<<<"y">>>>>> }

NextThreads ==
    \/ \E d \in ThreadTileDefs : Persist(d[1], d[2], TRUE)
    \/ NewBlock(<<Ref(nA)>>, TRUE)
    \/ Render
    \/ GetTile(nA)
    \/ RemoveTile(nA)
    \/ ClearTiles
    \/ Switch

SpecThreads == Init /\ [][NextThreads]_vars

----------------------------------------------------------------------------
(* SpecMalformed: programs that meet "@{" with no "}" after it: written in *)
(* the text of a constructor, or put together from "@" and "{" by a        *)
(* composition; += and |= scan nothing and leave a Block that holds it.    *)

Unclosed == <<"@", "{">>

MalformedTileDefs ==
    { <<nA, <<<<"x">>>>>>,
      <<nB, <<Ref(nA) \o Unclosed>>>> }

MalformedBlockDefs ==
    { <<<<"@">>>>,
      <<Ref(nA)>>,
      <<Ref(nB) \o Unclosed>>,
      <<Ref(nC), Unclosed \o <<"C">>>> }

MalformedOtherDefs ==
    { <<<<"{">>>>, <<<<"x">>>> }

NextMalformed ==
    \/ \E d \in MalformedTileDefs : Persist(d[1], d[2], TRUE)
    \/ \E l \in MalformedBlockDefs : NewBlock(l, TRUE)
    \/ \E l \in MalformedOtherDefs : NewOther(l, FALSE)
    \/ Add
    \/ BitOr
    \/ AddAssign
    \/ BitOrAssign
    \/ Render
    \/ InnerTiles

SpecMalformed == Init /\ [][NextMalformed]_vars

----------------------------------------------------------------------------
(* SpecTrim: the canonical form as a function of the lines.  The program   *)
(* starts with a Block of any of the line sequences below, kept as         *)
(* supplied (k!), and canonicalizes it, again and again.  The lines have   *)
(* trailing whitespace, blank lines before, between and after the text,    *)
(* and indentation made of spaces or of EM SPACE (three bytes).            *)

\* Bound of the model: the line sequences have at most MaxTrimLines lines
MaxTrimLines == 4

TrimLines ==
    { <<>>,
      <<" ">>,
      <<"a">>,
      <<" ", "a", " ">>,
      <<" ", " ", "b">>,
      <<"EM", "a">>,
      <<"EM", "a", "b", "c", "d">> }

TrimInputs ==
    UNION { [1..n -> TrimLines] : n \in 0..MaxTrimLines }

InitTrim ==
    /\ TL_RAW_TILES = EmptyMap
    /\ TL_PROCESSED_TILES = EmptyMap
    /\ blk \in { RTile(None, lns, FALSE) : lns \in TrimInputs }
    /\ other = NewThread.other
    /\ last = Did("new", None, blk.lns, <<>>, OK)
    /\ parked = NewThread

NextTrim ==
    \/ Canonicalize
    \/ KeepAsSupplied
    \/ Dimensions

SpecTrim == InitTrim /\ [][NextTrim]_vars

----------------------------------------------------------------------------
(* SpecSnapshot: programs that register A as "1" or "2" and B as "@{A}",   *)
(* hold the template "-@{B}" as a Block, take snapshots of it (t!(blk),    *)
(* k!(blk)) and of its text (tt!, kk!), re-register A from a text that     *)
(* references A (ttp!, kkp!), remove A, and render the template and the    *)
(* snapshot.  Every ttp! makes A one character longer.                     *)

SnapshotTileDefs ==
    { <<nA, <<<<"1">>>>>>,
      <<nA, <<<<"2">>>>>>,
      <<nB, <<Ref(nA)>>>> }

Template == <<<<"-">> \o Ref(nB)>>

SelfText == <<<<"-">> \o Ref(nA)>>

\* Bound of the model: ttp! is applied while the value of A is shorter
\* than MaxSnapshotText characters
MaxSnapshotText == 3
Short(name) ==
    name \in DOMAIN TL_PROCESSED_TILES =>
        Len(TL_PROCESSED_TILES[name]) < MaxSnapshotText

NextSnapshot ==
    \/ \E d \in SnapshotTileDefs : Persist(d[1], d[2], TRUE)
    \/ NewBlock(Template, TRUE)
    \/ Snapshot(Template, TRUE)
    \/ SnapshotBlock(FALSE)
    \/ Short(nA) /\ PersistSnapshot(nA, SelfText, TRUE)
    \/ RemoveTile(nA)
    \/ Render
    \/ RenderOther

SpecSnapshot == Init /\ [][NextSnapshot]_vars

----------------------------------------------------------------------------
(* SpecBlank: programs that build Blocks over names not yet registered     *)
(* ("@{A}-@{B}", and "@{}", whose placeholder has the empty name),         *)
(* register A with a line and B with a line or with the empty text,        *)
(* render, remove, clear, and ask for the blank tiles.                     *)

BlankTileDefs ==
    { <<nA, <<<<"x">>>>>>,
      <<nB, <<<<"y">>>>>>,
      <<nB, <<<<>>>>>> }

BlankBlockDefs ==
    { <<Ref(nA) \o <<"-">> \o Ref(nB)>>,
      <<Ref(<<>>)>> }

NextBlank ==
    \/ \E d \in BlankTileDefs : Persist(d[1], d[2], TRUE)
    \/ \E l \in BlankBlockDefs : NewBlock(l, TRUE)
    \/ \E n \in {nA, nB, <<>>} : RemoveTile(n)
    \/ ClearTiles
    \/ Render
    \/ GetBlankTiles

SpecBlank == Init /\ [][NextBlank]_vars

----------------------------------------------------------------------------
(* SpecIntrospect: programs that register A as "x" and B as "@{A}", build  *)
(* Blocks in either mode over text with placeholders and surrounding       *)
(* whitespace, put empty lines below them with |= t!(""), and ask a Block  *)
(* for its raw text, its rendering and its inner tiles.                    *)

IntrospectTileDefs ==
    { <<nA, <<<<"x">>>>>>,
      <<nB, <<Ref(nA)>>>> }

IntrospectBlockDefs ==
    { <<<<" ">> \o Ref(nA) \o <<" ">>>>,
      <<<<>>, <<" ">> \o Ref(nB) \o Ref(nB), <<" ", " ", "y">>>> }

NextIntrospect ==
    \/ \E d \in IntrospectTileDefs : Persist(d[1], d[2], TRUE)
    \/ \E l \in IntrospectBlockDefs : \E m \in BOOLEAN : NewBlock(l, m)
    \/ EmptyOther
    \/ BitOrAssign
    \/ RemoveTile(nA)
    \/ Render
    \/ RawText
    \/ InnerTiles

SpecIntrospect == Init /\ [][NextIntrospect]_vars

----------------------------------------------------------------------------
(* SpecCompose: programs that take a registered tile, or build a Block,    *)
(* and put another Block beside or below it, by + and | and by += and |=.  *)
(* "@" beside "{" beside "}" is the placeholder of the tile named "".      *)

\* <<name, lines, do_trimming>>
ComposeTileDefs ==
    { <<nB, <<<<" ", "y">>>>, FALSE>> }

ComposeBlockDefs ==
    { <<<<"@">>>> }

ComposeOtherDefs ==
    { <<<<"{">>>>, <<<<"}">>>>, <<<<"x">>>> }

NextCompose ==
    \/ \E d \in ComposeTileDefs : Persist(d[1], d[2], d[3])
    \/ TakeTile(nB)
    \/ \E l \in ComposeBlockDefs : NewBlock(l, TRUE)
    \/ \E l \in ComposeOtherDefs : NewOther(l, TRUE)
    \/ Add
    \/ BitOr
    \/ AddAssign
    \/ BitOrAssign

SpecCompose == Init /\ [][NextCompose]_vars

----------------------------------------------------------------------------
(* SpecMaps: programs that register A and B by tp!, ttp! and stp!, B over  *)
(* A and A over B (a cycle, on which a render fails), remove and clear     *)
(* them, render Blocks over them and over the blank tile C, and ask a      *)
(* Block for its raw text, its flattened text, its dimensions and its      *)
(* inner tiles.                                                            *)

MapsTileDefs ==
    { <<nA, <<<<"x">>>>>>,
      <<nB, <<Ref(nA)>>>>,
      <<nA, <<Ref(nB)>>>> }

MapsBlockDefs ==
    { <<Ref(nA)>>, <<Ref(nC) \o Ref(nB)>> }

NextMaps ==
    \/ \E d \in MapsTileDefs : Persist(d[1], d[2], TRUE)
    \/ PersistSnapshot(nB, <<Ref(nA)>>, TRUE)
    \/ StoreTile(nC)
    \/ \E l \in MapsBlockDefs : NewBlock(l, TRUE)
    \/ \E n \in {nA, nB} : RemoveTile(n)
    \/ ClearTiles
    \/ Render
    \/ RawText
    \/ Flatten
    \/ Dimensions
    \/ InnerTiles
    \/ InnerTilesInRawData

SpecMaps == Init /\ [][NextMaps]_vars

----------------------------------------------------------------------------
(* SpecTerminate: programs that hold a Block over D or over A and then     *)
(* register tiles that reference each other (D = "@{D}", A = "@{B}" with   *)
(* B = "@{A}"), build Blocks over them, render, and ask a Block for its    *)
(* inner tiles and its blank inner tiles.                                  *)

TerminateTileDefs ==
    { <<nD, <<<<"x">>>>>>,
      <<nD, <<Ref(nD)>>>>,
      <<nA, <<Ref(nB)>>>>,
      <<nB, <<Ref(nA)>>>> }

TerminateBlockDefs ==
    { <<Ref(nD)>>, <<Ref(nA)>> }

NextTerminate ==
    \/ \E d \in TerminateTileDefs : Persist(d[1], d[2], TRUE)
    \/ \E l \in TerminateBlockDefs : NewBlock(l, TRUE)
    \/ Render
    \/ InnerTiles
    \/ BlankInnerTiles

SpecTerminate == Init /\ [][NextTerminate]_vars

----------------------------------------------------------------------------
(* What the claims speak of: the reference graph of the registry and the   *)
(* text a tile stands for when every placeholder is replaced, recursively, *)
(* by the rendering of the tile registered under its name now.             *)

RECURSIVE ReachFrom(_, _, _)
ReachFrom(frontier, seen, raw) ==
    IF frontier = {} THEN seen
    ELSE LET new == UNION {RefsOfLines(raw[n].lns) : n \in frontier \cap DOMAIN raw}
         IN  ReachFrom(new \ seen, seen \cup new, raw)

\* the names reachable from a line sequence through the registered tiles
Reach(lns, raw) == ReachFrom(RefsOfLines(lns), RefsOfLines(lns), raw)

\* tile n transitively references itself
OnCycle(n, raw) == n \in DOMAIN raw /\ n \in Reach(raw[n].lns, raw)

CycleReachable(lns, raw) == \E n \in Reach(lns, raw) : OnCycle(n, raw)

Acyclic(raw) == \A n \in DOMAIN raw : ~OnCycle(n, raw)

RECURSIVE Resolved(_, _)
RECURSIVE ResolvedLine(_, _, _, _)
\* one line with every placeholder replaced by the current rendering of its
\* tile (a name with no entry contributes nothing)
ResolvedLine(evs, i, curr, raw) ==
    IF i > Len(evs) THEN curr
    ELSE LET e == evs[i]
         IN  IF e.k = "lit" THEN ResolvedLine(evs, i + 1, append(curr, <<e.v>>), raw)
             ELSE IF e.v \in DOMAIN raw
             THEN ResolvedLine(evs, i + 1,
                               append(curr, Split(Resolved(raw[e.v], raw))), raw)
             ELSE ResolvedLine(evs, i + 1, curr, raw)

RECURSIVE ResolvedLines(_, _)
ResolvedLines(lns, raw) ==
    IF lns = <<>> THEN <<>>
    ELSE ResolvedLine(Scan(Head(lns)), 1, <<>>, raw) \o ResolvedLines(Tail(lns), raw)

\* the rendering of a tile over an acyclic registry
Resolved(tile, raw) ==
    Join(trim(ResolvedLines(Split(Join(tile.lns)), raw), tile.do_trimming))

Rendered == last.op = "render"
RenderedOk == last.op = "render" /\ last.err = OK

----------------------------------------------------------------------------
(* C1: over an acyclic registry, rendering a Block returns its lines with  *)
(* every placeholder replaced, recursively, by the rendering of the tile   *)
(* now stored under that name; nothing resolved earlier survives.          *)
C1_RenderIsCurrentSubstitution ==
    (Rendered /\ Acyclic(TL_RAW_TILES))
        => (last.err = OK /\ last.out = Resolved(blk, TL_RAW_TILES))

(* C3: in a diamond (a references b and c, both reference d) a render of a *)
(* Block that references a substitutes the current value of d in b and in  *)
(* c alike: the values it used for b and c are their current renderings.   *)
Diamond(a, b, c, d, raw) ==
    /\ {a, b, c, d} \subseteq DOMAIN raw
    /\ Cardinality({a, b, c, d}) = 4
    /\ {b, c} \subseteq RefsOfLines(raw[a].lns)
    /\ d \in RefsOfLines(raw[b].lns)
    /\ d \in RefsOfLines(raw[c].lns)

C3_DiamondResolvesConsistently ==
    (RenderedOk /\ Acyclic(TL_RAW_TILES)) =>
        \A a \in RefsOfLines(blk.lns) : \A b, c, d \in DOMAIN TL_RAW_TILES :
            Diamond(a, b, c, d, TL_RAW_TILES) =>
                /\ TL_PROCESSED_TILES[b] = Resolved(TL_RAW_TILES[b], TL_RAW_TILES)
                /\ TL_PROCESSED_TILES[c] = Resolved(TL_RAW_TILES[c], TL_RAW_TILES)
                /\ last.out = Resolved(blk, TL_RAW_TILES)

(* C2: whenever a tile reachable from the rendered Block transitively      *)
(* references itself, rendering fails with RecursionDetected, for tiles of *)
(* any number of lines and wherever the back-reference sits.               *)
C2_CycleAlwaysDetected ==
    (Rendered /\ CycleReachable(blk.lns, TL_RAW_TILES)) => last.err = Recursion

(* C4: RecursionDetected is raised only for a true cycle: when no tile     *)
(* reachable from the rendered lines reaches itself, neither a render nor  *)
(* the render inside tp! fails with it, whatever names are repeated or     *)
(* shared.                                                                 *)
C4_RecursionOnlyForCycle ==
    /\ (Rendered /\ ~CycleReachable(blk.lns, TL_RAW_TILES)) => last.err # Recursion
    /\ (last.op = "tp" /\ ~CycleReachable(last.lns, TL_RAW_TILES))
           => last.err # Recursion

\* a Block over a diamond whose shared tile D is blank has been rendered
C4_Witness ==
    /\ RenderedOk
    /\ blk.lns = <<Ref(nA)>>
    /\ Diamond(nA, nB, nC, nD, TL_RAW_TILES)
    /\ TL_RAW_TILES[nD].lns = <<>>
    /\ ~CycleReachable(blk.lns, TL_RAW_TILES)

(* C5: when a constructor returns, every name referenced in the supplied   *)
(* lines or reachable from them through the registered tiles has an entry  *)
(* in raw; every entry the call created is a zero-line trimming Block      *)
(* whose resolved value is ""; the entries that existed are unchanged.     *)
Constructed == last.op = "new" /\ last.err = OK

C5_AllReachableRegistered ==
    Constructed => Reach(last.lns, TL_RAW_TILES) \subseteq DOMAIN TL_RAW_TILES

C5_OnlyBlanksAdded ==
    (last'.op = "new" /\ last'.err = OK) =>
        /\ \A n \in DOMAIN TL_RAW_TILES :
               n \in DOMAIN TL_RAW_TILES' /\ TL_RAW_TILES'[n] = TL_RAW_TILES[n]
        /\ \A n \in DOMAIN TL_PROCESSED_TILES :
               /\ n \in DOMAIN TL_PROCESSED_TILES'
               /\ TL_PROCESSED_TILES'[n] = TL_PROCESSED_TILES[n]
        /\ \A n \in DOMAIN TL_RAW_TILES' \ DOMAIN TL_RAW_TILES :
               /\ TL_RAW_TILES'[n] = RTile(Some(n), <<>>, TRUE)
               /\ n \in DOMAIN TL_PROCESSED_TILES'
               /\ TL_PROCESSED_TILES'[n] = <<>>

C5_ConstructorMaterializes ==
    [](C5_AllReachableRegistered) /\ [][C5_OnlyBlanksAdded]_vars

\* a Block over A was built when D, which A reaches through B, had been
\* removed: D is blank again, beside the resolved value of E
C5_Witness ==
    /\ Constructed
    /\ last.lns = <<Ref(nA)>>
    /\ {nA, nB, nD, nE} \subseteq DOMAIN TL_RAW_TILES
    /\ TL_RAW_TILES[nB].lns = <<Ref(nD)>>
    /\ TL_RAW_TILES[nD] = RTile(Some(nD), <<>>, TRUE)
    /\ TL_PROCESSED_TILES[nD] = <<>>
    /\ TL_PROCESSED_TILES[nE] = <<"x">>

(* C6: names a rendered Block references that have no registry entry.      *)
Missing(lns, raw) == RefsOfLines(lns) \ DOMAIN raw

RECURSIVE WithoutRefs(_, _, _)
\* a line, given as its events, with the placeholders of `names` deleted
WithoutRefs(evs, i, names) ==
    IF i > Len(evs) THEN <<>>
    ELSE (IF evs[i].k = "lit" THEN evs[i].v
          ELSE IF evs[i].k = "ref" /\ evs[i].v \notin names THEN Ref(evs[i].v)
          ELSE <<>>)
         \o WithoutRefs(evs, i + 1, names)

LinesWithoutRefs(lns, names) ==
    [i \in 1..Len(lns) |-> WithoutRefs(Scan(lns[i]), 1, names)]

----------------------------------------------------------------------------
(* The layout the claims describe, by columns: the fragments of a line are *)
(* its literal runs and the resolved texts of its registered placeholders, *)
(* in order; each is laid out from the column where the widest row built   *)
(* so far ends.                                                            *)

RECURSIVE Fragments(_, _, _, _)
Fragments(evs, i, raw, processed) ==
    IF i > Len(evs) THEN <<>>
    ELSE (IF evs[i].k = "lit" THEN <<<<evs[i].v>>>>
          ELSE IF evs[i].k = "ref" /\ evs[i].v \in DOMAIN raw
                  /\ evs[i].v \in DOMAIN processed
          THEN <<Split(processed[evs[i].v])>>
          ELSE <<>>)
         \o Fragments(evs, i + 1, raw, processed)

RECURSIVE Tallest(_)
Tallest(frags) ==
    IF frags = <<>> THEN 0 ELSE Max(Len(Head(frags)), Tallest(Tail(frags)))

Widest(widths) ==
    IF DOMAIN widths = {} THEN 0
    ELSE CHOOSE w \in {widths[r] : r \in DOMAIN widths} :
             \A r \in DOMAIN widths : widths[r] <= w

RECURSIVE Widths(_, _)
\* the width of every row once the first j fragments are laid out
Widths(frags, j) ==
    IF j = 0 THEN [r \in 1..Tallest(frags) |-> 0]
    ELSE [r \in 1..Tallest(frags) |->
             IF r <= Len(frags[j])
             THEN Widest(Widths(frags, j - 1)) + Len(frags[j][r])
             ELSE Widths(frags, j - 1)[r]]

\* the column after which fragment j starts
StartCol(frags, j) == Widest(Widths(frags, j - 1))

\* the character at row r, column c: that of the fragment lying there, or
\* a space
Cell(frags, r, c) ==
    IF \E j \in 1..Len(frags) :
           /\ r <= Len(frags[j])
           /\ StartCol(frags, j) < c
           /\ c <= StartCol(frags, j) + Len(frags[j][r])
    THEN LET j == CHOOSE k \in 1..Len(frags) :
                      /\ r <= Len(frags[k])
                      /\ StartCol(frags, k) < c
                      /\ c <= StartCol(frags, k) + Len(frags[k][r])
         IN  frags[j][r][c - StartCol(frags, j)]
    ELSE " "

Grid(frags) ==
    [r \in 1..Tallest(frags) |->
        [c \in 1..Widths(frags, Len(frags))[r] |-> Cell(frags, r, c)]]

RECURSIVE GridLines(_, _, _)
\* the rows a line sequence expands into
GridLines(lns, raw, processed) ==
    IF lns = <<>> THEN <<>>
    ELSE Grid(Fragments(Scan(Head(lns)), 1, raw, processed))
         \o GridLines(Tail(lns), raw, processed)

\* the rows of a tile with its own mode applied
Laid(tile, raw, processed) ==
    Join(trim(GridLines(Split(Join(tile.lns)), raw, processed), tile.do_trimming))

(* C7: a rendered line expands into as many rows as its tallest fragment,  *)
(* at least one; every row of a fragment starts at the column where the    *)
(* widest row built so far for the line ends; literal text is a one-row    *)
(* fragment, so after a multi-row fragment it continues the first row only.*)
C7_SplicePadRule ==
    RenderedOk =>
        /\ last.out = Laid(blk, TL_RAW_TILES, TL_PROCESSED_TILES)
        /\ (~blk.do_trimming /\ Len(blk.lns) = 1) =>
               Len(Split(last.out)) =
                   Max(1, Tallest(Fragments(Scan(blk.lns[1]), 1,
                                            TL_RAW_TILES, TL_PROCESSED_TILES)))

\* "@{M}x@{N}" rendered without trimming over M = a / bb and N = " c "
C7_Witness ==
    /\ RenderedOk
    /\ blk = RTile(None, <<Ref(nM) \o <<"x">> \o Ref(nN)>>, FALSE)
    /\ nM \in DOMAIN TL_RAW_TILES /\ TL_RAW_TILES[nM].lns = <<<<"a">>, <<"b", "b">>>>
    /\ nN \in DOMAIN TL_RAW_TILES /\ TL_RAW_TILES[nN].lns = <<<<" ", "c", " ">>>>
    /\ ~TL_RAW_TILES[nN].do_trimming
    /\ last.out = <<"a", " ", "x", " ", "c", " ", NL, "b", "b">>

(* C8: blk + other has max(len) lines; line i, for i within other, is line *)
(* i of blk (or "") padded with spaces to w characters and followed by     *)
(* line i of other, w being the greatest number of characters of a line of *)
(* blk; the lines of blk beyond other are unchanged.                       *)
PadTo(s, w) == [j \in 1..Max(w, Len(s)) |-> IF j <= Len(s) THEN s[j] ELSE " "]

WidthOf(t) ==
    IF t = <<>> THEN 0
    ELSE CHOOSE w \in {Len(t[i]) : i \in 1..Len(t)} :
             \A i \in 1..Len(t) : Len(t[i]) <= w

C8_AppendFormula ==
    [][(last'.op = "add" /\ last'.err = OK) =>
          /\ Len(blk'.lns) = Max(Len(blk.lns), Len(other.lns))
          /\ \A i \in 1..Len(blk'.lns) :
                 blk'.lns[i] =
                     IF i <= Len(other.lns)
                     THEN PadTo(IF i <= Len(blk.lns) THEN blk.lns[i] ELSE <<>>,
                                WidthOf(blk.lns)) \o other.lns[i]
                     ELSE blk.lns[i]]_vars

\* the lines "b" / "\u2003a" plus the line "X": the first line is padded to
\* two characters, the second is left as it was
C8_Witness ==
    /\ last.op = "add" /\ last.err = OK
    /\ other.lns = <<<<"X">>>>
    /\ blk.lns = <<<<"b", " ", "X">>, <<"EM", "a">>>>

(* C9: blk | other has the lines of blk followed by the lines of other, so *)
(* a zero-line Block is an identity on either side; an empty line put      *)
(* between two lines of text is an empty row of the rendering.             *)
LiteralOnly(lns) == RefsOfLines(lns) = {} /\ \A i \in 1..Len(lns) : NL \notin
                        {lns[i][j] : j \in 1..Len(lns[i])}

C9_BitOrStep ==
    (last'.op = "bitor" /\ last'.err = OK) =>
        /\ blk'.lns = blk.lns \o other.lns
        /\ Len(blk'.lns) = Len(blk.lns) + Len(other.lns)
        /\ other.lns = <<>> => blk'.lns = blk.lns
        /\ blk.lns = <<>> => blk'.lns = other.lns

C9_InteriorRowSurvives ==
    (/\ RenderedOk
     /\ LiteralOnly(blk.lns)
     /\ Len(blk.lns) >= 1
     /\ trim_end(blk.lns[1]) # <<>>
     /\ trim_end(blk.lns[Len(blk.lns)]) # <<>>) =>
        /\ Len(Split(last.out)) = Len(blk.lns)
        /\ \A i \in 1..Len(blk.lns) :
               blk.lns[i] = <<>> => Split(last.out)[i] = <<>>

C9_BitOrConcatenates ==
    [][C9_BitOrStep]_vars /\ [](C9_InteriorRowSurvives)

\* t!("h") | t!("") | t!("X") has been rendered
C9_Witness ==
    /\ RenderedOk
    /\ blk.lns = <<<<"h">>, <<>>, <<"X">>>>
    /\ last.out = <<"h", NL, NL, "X">>

(* C10: every registered tile a rendered Block references is resolved      *)
(* under its own mode (its whitespace kept when it does not trim), and a   *)
(* Block that is one placeholder renders as that text with the mode of the *)
(* Block applied to it once.                                               *)
C10_OwnTrimmingMode ==
    RenderedOk =>
        \A n \in RefsOfLines(blk.lns) \cap DOMAIN TL_RAW_TILES :
            /\ TL_PROCESSED_TILES[n] =
                   Laid(TL_RAW_TILES[n], TL_RAW_TILES, TL_PROCESSED_TILES)
            /\ (LiteralOnly(TL_RAW_TILES[n].lns) /\ ~TL_RAW_TILES[n].do_trimming) =>
                   TL_PROCESSED_TILES[n] = Join(TL_RAW_TILES[n].lns)
            /\ blk.lns = <<Ref(n)>> =>
                   last.out = IF blk.do_trimming
                              THEN Join(trim(Split(TL_PROCESSED_TILES[n]), TRUE))
                              ELSE TL_PROCESSED_TILES[n]

\* k!("@{N}") rendered over kp!(N, " c ")
C10_Witness ==
    /\ RenderedOk
    /\ blk = RTile(None, <<Ref(nN)>>, FALSE)
    /\ nN \in DOMAIN TL_RAW_TILES
    /\ TL_RAW_TILES[nN] = RTile(Some(nN), <<<<" ", "c", " ">>>>, FALSE)
    /\ last.out = <<" ", "c", " ">>

(* C11: a registered tile is what get returns until that name is set again,*)
(* removed or the registry cleared; a set overwrites; remove deletes the   *)
(* name from both maps and nothing else; clear empties both maps; get of a *)
(* name without an entry returns None.                                     *)
SetsName(n) ==
    \/ StoreTile(n)
    \/ \E d \in RegistryTileDefs : d[1] = n /\ Persist(d[1], d[2], d[3])

C11_Step ==
    /\ \A n \in RegistryNames :
          /\ (StoreTile(n) /\ last'.err = OK) =>
                 get_raw_tile(n, TL_RAW_TILES') = Some(blk)
          /\ \A d \in RegistryTileDefs :
                 (d[1] = n /\ Persist(d[1], d[2], d[3]) /\ last'.err = OK) =>
                     get_raw_tile(n, TL_RAW_TILES') =
                         Some(RTile(Some(n), trim(d[2], d[3]), d[3]))
          /\ RemoveTile(n) =>
                 /\ get_raw_tile(n, TL_RAW_TILES') = None
                 /\ n \notin DOMAIN TL_PROCESSED_TILES'
                 /\ \A m \in RegistryNames \ {n} :
                        /\ get_raw_tile(m, TL_RAW_TILES') = get_raw_tile(m, TL_RAW_TILES)
                        /\ m \in DOMAIN TL_PROCESSED_TILES =>
                               /\ m \in DOMAIN TL_PROCESSED_TILES'
                               /\ TL_PROCESSED_TILES'[m] = TL_PROCESSED_TILES[m]
          /\ (n \in DOMAIN TL_RAW_TILES
                  /\ ~SetsName(n) /\ ~RemoveTile(n) /\ ~ClearTiles) =>
                 get_raw_tile(n, TL_RAW_TILES') = get_raw_tile(n, TL_RAW_TILES)
          /\ GetTile(n) =>
                 /\ last'.err = OK
                 /\ n \notin DOMAIN TL_RAW_TILES => last'.out = None
                 /\ n \in DOMAIN TL_RAW_TILES => last'.out = Some(TL_RAW_TILES[n])
    /\ ClearTiles => (DOMAIN TL_RAW_TILES' = {} /\ DOMAIN TL_PROCESSED_TILES' = {})

C11_RegistryLifecycle == [][C11_Step]_vars

\* A was removed while B, which references it, stays as it was registered:
\* get of A has returned None
C11_Witness ==
    /\ last.op = "get" /\ last.name = Some(nA) /\ last.out = None
    /\ nB \in DOMAIN TL_RAW_TILES
    /\ TL_RAW_TILES[nB] = RTile(Some(nB), <<Ref(nA)>>, TRUE)
    /\ TL_PROCESSED_TILES[nB] = <<"x">>

(* C12: the registry belongs to one thread: an operation of the running    *)
(* thread changes nothing of what the other thread holds, and the other    *)
(* thread, when it runs again, finds its maps, its Blocks and the results  *)
(* it was returned exactly as it left them.                                *)
C12_Step ==
    /\ ~Switch => parked' = parked
    /\ Switch =>
          /\ TL_RAW_TILES' = parked.raw
          /\ TL_PROCESSED_TILES' = parked.processed
          /\ last' = parked.last
          /\ parked'.raw = TL_RAW_TILES
          /\ parked'.processed = TL_PROCESSED_TILES
          /\ parked'.last = last
          /\ get_raw_tile(nA, TL_RAW_TILES') = get_raw_tile(nA, parked.raw)
          /\ fmt(blk', TL_RAW_TILES', TL_PROCESSED_TILES').out =
                 fmt(parked.blk, parked.raw, parked.processed).out

C12_ThreadLocalRegistry == [][C12_Step]_vars

\* both threads registered A, one as "x" and one as "y", and each rendered
\* "@{A}" as its own value
C12_Witness ==
    /\ RenderedOk /\ last.out = <<"x">>
    /\ nA \in DOMAIN TL_RAW_TILES /\ TL_RAW_TILES[nA].lns = <<<<"x">>>>
    /\ parked.last.op = "render" /\ parked.last.out = <<"y">>
    /\ nA \in DOMAIN parked.raw /\ parked.raw[nA].lns = <<<<"y">>>>

(* C13: a render of a Block one of whose placeholders names a tile with no *)
(* raw entry completes; what it returns is the layout of the remaining     *)
(* fragments of each line (its literal runs and the texts of its           *)
(* registered placeholders, the missing one giving no fragment), which is  *)
(* the current substitution of the Block with nothing for the missing name.*)
C13_Step ==
    (last'.op = "render" /\ Missing(blk.lns, TL_RAW_TILES) # {}) =>
        /\ last'.err = OK
        /\ last'.out = Laid(blk, TL_RAW_TILES, TL_PROCESSED_TILES')
        /\ last'.out = Resolved(blk, TL_RAW_TILES)
        /\ \A n \in RefsOfLines(blk.lns) \cap DOMAIN TL_RAW_TILES :
               /\ n \in DOMAIN TL_PROCESSED_TILES'
               /\ TL_PROCESSED_TILES'[n] = Resolved(TL_RAW_TILES[n], TL_RAW_TILES)

C13_MissingTileIsNotFatal == [][C13_Step]_vars

\* "@{D}-@{E}" rendered after D was removed, E being "y": the literal and
\* the value of E are there, D gave nothing
C13_Witness ==
    /\ RenderedOk
    /\ blk.lns = <<Ref(nD) \o <<"-">> \o Ref(nE)>>
    /\ Missing(blk.lns, TL_RAW_TILES) = {nD}
    /\ TL_RAW_TILES[nE].lns = <<<<"y">>>>
    /\ last.out = <<"-", "y">>

(* C14: a line is malformed when it holds "@{" with no "}" after it.  A    *)
(* constructor, tp!, + or | given such a line fails with MalformedReference*)
(* , returns no Block and leaves both maps as they were: no blank tile is  *)
(* inserted, not even for the placeholders before the malformed one; a     *)
(* render or inner_tiles() of a Block that holds such a line fails and     *)
(* returns nothing.                                                        *)
IsMalformedLine(ln) ==
    \E i \in 1..Len(ln) :
        /\ i < Len(ln) /\ ln[i] = "@" /\ ln[i + 1] = "{"
        /\ \A j \in (i + 2)..Len(ln) : ln[j] # "}"

HasMalformedLine(lns) == \E i \in 1..Len(lns) : IsMalformedLine(lns[i])

NothingBuilt ==
    /\ last'.err = Malformed
    /\ UNCHANGED <<TL_RAW_TILES, TL_PROCESSED_TILES, blk, other>>

C14_Step ==
    /\ \A l \in MalformedBlockDefs :
           (HasMalformedLine(l) /\ NewBlock(l, TRUE)) => NothingBuilt
    /\ \A d \in MalformedTileDefs :
           (HasMalformedLine(d[2]) /\ Persist(d[1], d[2], TRUE)) => NothingBuilt
    /\ (last'.op = "add" /\ HasMalformedLine(append(blk.lns, other.lns)))
           => NothingBuilt
    /\ (last'.op = "bitor" /\ HasMalformedLine(blk.lns \o other.lns))
           => NothingBuilt
    /\ (last'.op \in {"render", "inner_tiles"} /\ HasMalformedLine(blk.lns))
           => (last'.err = Malformed /\ last'.out = <<>>
               /\ UNCHANGED <<TL_RAW_TILES, blk, other>>)

InsertsBlanksOnly ==
    /\ DOMAIN TL_RAW_TILES \subseteq DOMAIN TL_RAW_TILES'
    /\ TL_RAW_TILES' =
           insert_blank_tiles(DOMAIN TL_RAW_TILES' \ DOMAIN TL_RAW_TILES,
                              TL_RAW_TILES, TL_PROCESSED_TILES).raw
    /\ TL_PROCESSED_TILES' =
           insert_blank_tiles(DOMAIN TL_RAW_TILES' \ DOMAIN TL_RAW_TILES,
                              TL_RAW_TILES, TL_PROCESSED_TILES).processed

C15_MaterializationNeverFails ==
    [][last'.op = "new" => (last'.err = OK /\ InsertsBlanksOnly)]_vars

(* C16: canonicalizing is idempotent: the lines of a Block a trimming      *)
(* constructor has just returned are their own canonical form, whatever    *)
(* the whitespace they were indented with.                                 *)
Canonicalized == last.op = "new" /\ last.err = OK /\ blk.do_trimming

C16_CanonicalizeIdempotent ==
    Canonicalized => trim(blk.lns, TRUE) = blk.lns

(* C17: canonicalizing drops the lines before the first and after the last *)
(* line that holds text (a line holds text when something is left of it    *)
(* once its trailing whitespace is stripped) and keeps the lines between,  *)
(* blank ones included, each at its place; a constructor that does not     *)
(* trim returns the lines exactly as supplied.                             *)
HoldsText(ln) == trim_end(ln) # <<>>

TextLines(lns) == {i \in 1..Len(lns) : HoldsText(lns[i])}

FirstText(lns) == CHOOSE i \in TextLines(lns) : \A j \in TextLines(lns) : i <= j

LastText(lns) == CHOOSE i \in TextLines(lns) : \A j \in TextLines(lns) : j <= i

IsSuffix(s, t) == Len(s) <= Len(t) /\ s = SubSeq(t, Len(t) - Len(s) + 1, Len(t))

\* the input lines that stay, stripped of their trailing whitespace
Kept(lns) ==
    IF TextLines(lns) = {} THEN <<>>
    ELSE [k \in 1..(LastText(lns) - FirstText(lns) + 1) |->
             trim_end(lns[FirstText(lns) + k - 1])]

C17_BlankLinesAtTheEndsOnly ==
    /\ Canonicalized =>
          /\ Len(blk.lns) = Len(Kept(last.lns))
          /\ \A k \in 1..Len(blk.lns) :
                 /\ IsSuffix(blk.lns[k], Kept(last.lns)[k])
                 /\ Kept(last.lns)[k] = <<>> => blk.lns[k] = <<>>
    /\ (last.op = "new" /\ last.err = OK /\ ~blk.do_trimming) => blk.lns = last.lns

\* " " / "a" / " " / "  b" was canonicalized: the first line is gone, the
\* blank line between the two lines of text is there
C17_Witness ==
    /\ Canonicalized
    /\ last.lns = << <<" ">>, <<"a">>, <<" ">>, <<" ", " ", "b">> >>
    /\ blk.lns = << <<"a">>, <<>>, <<" ", " ", "b">> >>

(* C18: canonicalizing removes from every line that stays its first `left` *)
(* characters, `left` being the least number of leading whitespace         *)
(* characters of the lines that hold text: what is removed is whitespace.  *)
LeadingWhitespace(ln) == Len(ln) - Len(trim_start(ln))

LeftOf(kept) ==
    CHOOSE n \in {LeadingWhitespace(kept[i]) : i \in TextLines(kept)} :
        \A i \in TextLines(kept) : n <= LeadingWhitespace(kept[i])

C18_RemovesCommonIndentOnly ==
    (Canonicalized /\ TextLines(last.lns) # {}) =>
        \A k \in 1..Len(blk.lns) :
            /\ k <= Len(Kept(last.lns))
            /\ blk.lns[k] = SkipChars(Kept(last.lns)[k], LeftOf(Kept(last.lns)))

(* C19: the lines of a trimming Block that hold no placeholder are in      *)
(* canonical form, whichever constructor, macro or composition operator    *)
(* returned the Block.                                                     *)
InCanonicalForm(tile) ==
    (tile.do_trimming /\ RefsOfLines(tile.lns) = {}) => trim(tile.lns, TRUE) = tile.lns

C19_TrimmingBlocksCanonical ==
    InCanonicalForm(blk) /\ InCanonicalForm(other)

(* C20: a Block built from the rendered form of another (t!(block), tt!,   *)
(* kk!) holds the text the template resolved to when it was built: no      *)
(* placeholder is left in it, and whatever is registered, removed or       *)
(* re-registered afterwards, it renders the same; ttp!(n, text referencing *)
(* n) registers under n the text with the former value of n in it, and no  *)
(* tile references itself afterwards; the template renders the current     *)
(* values.                                                                 *)
RenderOf(tile, raw, processed) == fmt(tile, raw, processed).out

C20_Step ==
    /\ (last'.op = "tt" /\ last'.err = OK) =>
          /\ RefsOfLines(other'.lns) = {}
          /\ RenderOf(other', TL_RAW_TILES', TL_PROCESSED_TILES') =
                 Resolved(RTile(None, last'.lns, other'.do_trimming), TL_RAW_TILES)
    /\ other' = other =>
          RenderOf(other', TL_RAW_TILES', TL_PROCESSED_TILES') =
              RenderOf(other, TL_RAW_TILES, TL_PROCESSED_TILES)
    /\ (PersistSnapshot(nA, SelfText, TRUE) /\ last'.err = OK) =>
          /\ Acyclic(TL_RAW_TILES')
          /\ RefsOfLines(TL_RAW_TILES'[nA].lns) = {}
          /\ TL_PROCESSED_TILES'[nA] =
                 Resolved(RTile(None, SelfText, TRUE), TL_RAW_TILES)
    /\ (last'.op = "render" /\ last'.err = OK) =>
          last'.out = Resolved(blk, TL_RAW_TILES)

C20_SnapshotKeepsTemplateFollows == [][C20_Step]_vars

\* the snapshot was taken when A was "1"; A is "2" now and the template
\* has just rendered "-2"
C20_Witness ==
    /\ RenderedOk
    /\ blk.lns = Template
    /\ last.out = <<"-", "2">>
    /\ other.lns = <<<<"-", "1">>>>
    /\ RenderOf(other, TL_RAW_TILES, TL_PROCESSED_TILES) = <<"-", "1">>

(* C21: get_blank_tiles() returns, and what it returns is the set of the   *)
(* registered names whose raw Block has no line.                           *)
C21_BlankTilesExact ==
    [][last'.op = "get_blank_tiles" =>
          /\ last'.err = OK
          /\ last'.out = {n \in DOMAIN TL_RAW_TILES : Len(TL_RAW_TILES[n].lns) = 0}]_vars

(* C22: raw() returns the lines of the Block, in canonical form when the   *)
(* Block trims and as they are otherwise, joined by line breaks; every     *)
(* placeholder is still there as text, whatever the registry holds, and    *)
(* neither map changes; to_string returns the substituted value.           *)
CanonicalForm(lns) ==
    [k \in 1..Len(Kept(lns)) |-> SkipChars(Kept(lns)[k], LeftOf(Kept(lns)))]

C22_Step ==
    /\ last'.op = "raw" =>
          /\ last'.err = OK
          /\ last'.out = Join(IF blk.do_trimming THEN CanonicalForm(blk.lns)
                                                 ELSE blk.lns)
          /\ RefsOfLines(Split(last'.out)) = RefsOfLines(blk.lns)
          /\ UNCHANGED <<TL_RAW_TILES, TL_PROCESSED_TILES, blk>>
    /\ (last'.op = "render" /\ last'.err = OK) =>
          last'.out = Resolved(blk, TL_RAW_TILES)

C22_RawKeepsPlaceholders == [][C22_Step]_vars

\* raw() of k!(" @{A} ") over A = "x": the text as supplied, where
\* to_string gives " x "
C22_Witness ==
    /\ last.op = "raw"
    /\ blk = RTile(None, <<<<" ">> \o Ref(nA) \o <<" ">>>>, FALSE)
    /\ nA \in DOMAIN TL_RAW_TILES /\ TL_RAW_TILES[nA].lns = <<<<"x">>>>
    /\ last.out = <<" ">> \o Ref(nA) \o <<" ">>
    /\ RenderOf(blk, TL_RAW_TILES, TL_PROCESSED_TILES) = <<" ", "x", " ">>

(* C23: dimensions() returns the greatest number of characters of a line   *)
(* of the Block and the number of its lines, (0, 0) when it has no line;   *)
(* for a Block a trimming constructor has just returned these are the      *)
(* dimensions of the canonical form of the lines supplied, for one a       *)
(* non-trimming constructor returned those of the lines supplied.          *)
WidestLine(lns) ==
    IF lns = <<>> THEN 0
    ELSE CHOOSE w \in {Len(lns[i]) : i \in 1..Len(lns)} :
             \A i \in 1..Len(lns) : Len(lns[i]) <= w

DimensionsOf(lns) == <<WidestLine(lns), Len(lns)>>

C23_Step ==
    /\ last'.op = "dimensions" =>
          /\ last'.out = DimensionsOf(blk.lns)
          /\ blk.lns = <<>> => last'.out = <<0, 0>>
    /\ (last'.op = "new" /\ last'.err = OK) =>
          dimensions(blk') =
              DimensionsOf(IF blk'.do_trimming THEN CanonicalForm(last'.lns)
                                               ELSE last'.lns)

C23_DimensionsOfCanonicalForm == [][C23_Step]_vars

(* C24: every operation returns, or fails with RecursionDetected or        *)
(* MalformedReference, whatever the registry holds: none recurses without  *)
(* bound.                                                                  *)
C24_EveryOperationTerminates ==
    last.err \in {OK, Recursion, Malformed}

(* C25: in the pass a render runs for a placeholder of the Block, over an  *)
(* acyclic registry, every gathered tile is re-evaluated after all the     *)
(* tiles it references directly.                                           *)
PassOrder(n, raw) ==
    evaluation_order(
        find_inner_tiles(n, raw[n], [pt |-> {}, it |-> <<n>>, err |-> OK], raw).it)

IsBottomUp(order, raw) ==
    \A i \in 1..Len(order) :
        \A m \in RefsOfLines(raw[order[i]].lns) \cap DOMAIN raw :
            \E j \in 1..(i - 1) : order[j] = m

C25_BottomUpOrder ==
    (RenderedOk /\ Acyclic(TL_RAW_TILES)) =>
        \A n \in RefsOfLines(blk.lns) \cap DOMAIN TL_RAW_TILES :
            IsBottomUp(PassOrder(n, TL_RAW_TILES), TL_RAW_TILES)

(* C26: over an acyclic registry the list find_inner_tiles builds for a    *)
(* Block holds every registered name the Block reaches through             *)
(* placeholders, each once; inner_tiles() returns these names as a set.    *)
Elements(list) == {list[i] : i \in 1..Len(list)}

NoDuplicates(list) ==
    \A i \in 1..Len(list) : \A j \in 1..Len(list) : list[i] = list[j] => i = j

C26_GatherIsClosureOnce ==
    [][(last'.op = "inner_tiles" /\ Acyclic(TL_RAW_TILES)) =>
          /\ last'.err = OK
          /\ Elements(last'.out) = Reach(blk.lns, TL_RAW_TILES) \cap DOMAIN TL_RAW_TILES
          /\ NoDuplicates(last'.out)]_vars

(* C27: every name that appears as a placeholder in the lines of a tile    *)
(* stored in TL_RAW_TILES has an entry in TL_RAW_TILES itself.             *)
RegistryClosed(raw) ==
    \A n \in DOMAIN raw : RefsOfLines(raw[n].lns) \subseteq DOMAIN raw

C27_RegistryClosure == RegistryClosed(TL_RAW_TILES)

(* C28: after blk += other the lines of blk are those of blk + other, and  *)
(* after blk |= other those of blk | other; += and |= leave the name, the  *)
(* trimming mode and both registry maps as they were; + and | return a     *)
(* Block with no name and the trimming mode of the left operand.           *)
PureAdd == add(blk, other, TL_RAW_TILES, TL_PROCESSED_TILES)

PureBitOr == bitor(blk, other, TL_RAW_TILES, TL_PROCESSED_TILES)

LinesOnly ==
    /\ blk'.name = blk.name
    /\ blk'.do_trimming = blk.do_trimming
    /\ TL_RAW_TILES' = TL_RAW_TILES
    /\ TL_PROCESSED_TILES' = TL_PROCESSED_TILES

C28_Step ==
    /\ last'.op = "add_assign" =>
          /\ PureAdd.err = OK => blk'.lns = PureAdd.tile.lns
          /\ LinesOnly
    /\ last'.op = "bitor_assign" =>
          /\ PureBitOr.err = OK => blk'.lns = PureBitOr.tile.lns
          /\ LinesOnly
    /\ (last'.op \in {"add", "bitor"} /\ last'.err = OK) =>
          /\ blk'.name = None
          /\ blk'.do_trimming = blk.do_trimming

C28_AccumulatingAgreesWithPure == [][C28_Step]_vars

\* the tile B, kept as supplied, was taken with its name and x was put
\* beside it by +=
C28_Witness ==
    /\ last.op = "add_assign"
    /\ blk = RTile(Some(nB), <<<<" ", "y", "x">>>>, FALSE)
    /\ other.do_trimming

(* C29: a name has an entry in TL_RAW_TILES if and only if it has an entry *)
(* in TL_PROCESSED_TILES.                                                  *)
C29_SameKeys == DOMAIN TL_RAW_TILES = DOMAIN TL_PROCESSED_TILES

\* a render has failed on the cycle of A and B, and both are registered
C29_Witness ==
    /\ last.op = "render"
    /\ last.err = Recursion
    /\ DOMAIN TL_RAW_TILES = {nA, nB}

(* C30: blk.to_string(), whether it succeeds or fails, leaves              *)
(* TL_RAW_TILES as it was and changes TL_PROCESSED_TILES only by           *)
(* overwriting entries of names blk reaches; raw(), flatten(),             *)
(* dimensions(), inner_tiles() and inner_tiles_in_raw_data() change        *)
(* neither map.                                                            *)
Introspections ==
    {"raw", "flatten", "dimensions", "inner_tiles", "inner_tiles_in_raw_data"}

C30_Step ==
    /\ last'.op = "render" =>
          /\ TL_RAW_TILES' = TL_RAW_TILES
          /\ DOMAIN TL_PROCESSED_TILES' = DOMAIN TL_PROCESSED_TILES
          /\ \A n \in DOMAIN TL_PROCESSED_TILES :
                TL_PROCESSED_TILES'[n] # TL_PROCESSED_TILES[n] =>
                    n \in Reach(blk.lns, TL_RAW_TILES)
    /\ last'.op \in Introspections =>
          /\ TL_RAW_TILES' = TL_RAW_TILES
          /\ TL_PROCESSED_TILES' = TL_PROCESSED_TILES

C30_RenderReadsRaw == [][C30_Step]_vars

\* the Block @{C}@{B} was rendered to "x" with C missing
C30_Witness ==
    /\ last.op = "render"
    /\ last.err = OK
    /\ last.out = <<"x">>
    /\ blk.lns = <<Ref(nC) \o Ref(nB)>>
    /\ nC \notin DOMAIN TL_RAW_TILES
    /\ nB \in DOMAIN TL_PROCESSED_TILES
    /\ TL_PROCESSED_TILES[nB] = <<"x">>

====
